---- MODULE Spec2Model ----
(***************************************************************************)
(* create-bun-monorepo: the command line front end (src/index.ts), the     *)
(* non-interactive and interactive option gathering and the project        *)
(* assembler (src/create-command.ts), the add-to-existing-monorepo entry   *)
(* points (src/add-command.ts) and the shared per-app / per-package        *)
(* pipeline (lib/shared-setup), over an abstract file system.              *)
(*                                                                         *)
(* Strings are sequences of tokens.  A token is either one of the          *)
(* characters the code's regular expressions and trim() tell apart         *)
(* ("[", "]", " ", "@", "/") or a word: a run of other characters.         *)
(* A file-system path is a sequence of strings (its segments).             *)
(***************************************************************************)
EXTENDS Integers, Sequences, FiniteSets, TLC

(***************************************************************************)
(* Bounds                                                                  *)
(***************************************************************************)
\* the longest input of the name-parsing specification, in tokens
MaxLen == 4
\* the most add invocations that follow the create invocation
MaxAdds == 1

(***************************************************************************)
(* Strings                                                                 *)
(***************************************************************************)
S(w) == <<w>>

RECURSIVE TrimStart(_)
TrimStart(s) == IF s # <<>> /\ Head(s) = " " THEN TrimStart(Tail(s)) ELSE s

RECURSIVE TrimEnd(_)
TrimEnd(s) ==
  IF s # <<>> /\ s[Len(s)] = " " THEN TrimEnd(SubSeq(s, 1, Len(s) - 1)) ELSE s

Trim(s) == TrimEnd(TrimStart(s))

Includes(s, c) == \E i \in 1..Len(s) : s[i] = c

RangeOf(s) == {s[i] : i \in 1..Len(s)}

Undefined == <<"undefined">>

(***************************************************************************)
(* The template registry                                                   *)
(***************************************************************************)
CategoryOrder == <<"blank", "frontend", "mobile", "backend", "packages">>

TEMPLATES_CONFIG ==
  [blank    |-> {"blank"},
   frontend |-> {"react-vite", "react-webpack", "react-vike", "nextjs",
                 "nextjs-solito", "react-router"},
   mobile   |-> {"react-native-expo", "react-native-bare"},
   backend  |-> {"express", "hono", "nestjs"},
   packages |-> {"utils", "ui", "schemas", "hooks", "ui-native", "db"}]

\* templateConfig.categories[category]?.templates[template]?.path is set: the
\* template is an own key of the category and is not blank (path: null).
TemplatePath(category, template) ==
  /\ category \in DOMAIN TEMPLATES_CONFIG
  /\ Len(template) = 1
  /\ template[1] \in TEMPLATES_CONFIG[category]
  /\ template[1] # "blank"

FULLSTACK_FRAMEWORKS == {"nextjs", "nextjs-solito", "react-router", "react-vike"}
BACKEND_FRAMEWORKS == {"express", "hono", "nestjs"}
MOBILE_FRAMEWORKS == {"react-native-expo", "react-native-bare"}
ORM_FRAMEWORKS == FULLSTACK_FRAMEWORKS \cup BACKEND_FRAMEWORKS
NATIVE_FRAMEWORKS == MOBILE_FRAMEWORKS \cup {"nextjs-solito"}
REACT_FRAMEWORKS ==
  MOBILE_FRAMEWORKS \cup FULLSTACK_FRAMEWORKS \cup {"react-vite", "react-webpack"}

\* Property names every object literal inherits from Object.prototype: the
\* lookup category.templates?.[templateName] finds them as well as own keys.
ObjectPrototypeKeys ==
  {"constructor", "toString", "valueOf", "hasOwnProperty", "__proto__"}

\* category.templates?.[templateName] is truthy
TemplateLookup(category, templateName) ==
  /\ Len(templateName) = 1
  /\ \/ templateName[1] \in TEMPLATES_CONFIG[category]
     \/ templateName[1] \in ObjectPrototypeKeys

Skipped(categoryKey, type) ==
  \/ type = "apps" /\ categoryKey = "packages"
  \/ type = "packages" /\ categoryKey # "packages"

RECURSIVE FindFrom(_, _, _)
FindFrom(i, templateName, type) ==
  IF i > Len(CategoryOrder) THEN "null"
  ELSE IF ~Skipped(CategoryOrder[i], type)
          /\ TemplateLookup(CategoryOrder[i], templateName)
       THEN CategoryOrder[i]
       ELSE FindFrom(i + 1, templateName, type)

\* A lookup that reports the first category of the registry for every
\* template it finds.
findTemplateFirstCategory(templateName, type) ==
  IF FindFrom(1, templateName, type) = "null" THEN "null" ELSE CategoryOrder[1]

\* The category of templateName for type, or "null".
findTemplateInConfig(templateName, type) ==
  IF templateName = S("blank") THEN "blank" ELSE FindFrom(1, templateName, type)

getAvailableTemplates(type) ==
  UNION {TEMPLATES_CONFIG[c] : c \in {k \in DOMAIN TEMPLATES_CONFIG : ~Skipped(k, type)}}
    \cup {"blank"}

(***************************************************************************)
(* Name parsing                                                            *)
(***************************************************************************)
\* /^(.*)?\[([^\]]+)\]$/ : the positions of "[" at which the pattern can
\* match, the greedy prefix group taking the last of them.
BracketStarts(s) ==
  {i \in 1..Len(s) :
     /\ s[i] = "["
     /\ s[Len(s)] = "]"
     /\ i + 1 <= Len(s) - 1
     /\ ~Includes(SubSeq(s, i + 1, Len(s) - 1), "]")}

BRACKET_PATTERN(s) ==
  IF BracketStarts(s) = {} THEN [match |-> FALSE, name |-> <<>>, template |-> <<>>]
  ELSE LET i == CHOOSE k \in BracketStarts(s) : \A j \in BracketStarts(s) : j <= k
       IN [match |-> TRUE,
           name |-> SubSeq(s, 1, i - 1),
           template |-> SubSeq(s, i + 1, Len(s) - 1)]

\* index.ts parseNameAndTemplate: template Undefined when there are no brackets
parseNameAndTemplate(input) ==
  LET m == BRACKET_PATTERN(input) IN
  IF m.match
  THEN LET name == IF m.name # <<>> THEN m.name ELSE m.template IN
       IF name = <<>>
       THEN [error |-> TRUE, name |-> <<>>, template |-> Undefined]
       ELSE [error |-> FALSE, name |-> Trim(name), template |-> Trim(m.template)]
  ELSE [error |-> FALSE, name |-> Trim(input), template |-> Undefined]

\* /^([^[]+)(?:\[([^\]]+)\])?$/
FirstBracket(s) ==
  IF Includes(s, "[") THEN CHOOSE i \in 1..Len(s) : s[i] = "[" /\ \A j \in 1..(i - 1) : s[j] # "["
  ELSE 0

APP_TEMPLATE_REGEX(s) ==
  LET i == FirstBracket(s) IN
  IF s # <<>> /\ i = 0
  THEN [match |-> TRUE, name |-> s, template |-> Undefined]
  ELSE IF /\ i > 1
          /\ s[Len(s)] = "]"
          /\ i + 1 <= Len(s) - 1
          /\ ~Includes(SubSeq(s, i + 1, Len(s) - 1), "]")
       THEN [match |-> TRUE,
             name |-> SubSeq(s, 1, i - 1),
             template |-> SubSeq(s, i + 1, Len(s) - 1)]
       ELSE [match |-> FALSE, name |-> <<>>, template |-> Undefined]

PACKAGE_TEMPLATE_REGEX(s) == APP_TEMPLATE_REGEX(s)

NoSpec == [name |-> <<>>, template |-> <<>>, category |-> "none"]

\* create-command.ts promptUser, the body of apps.map / packages.map for one
\* already trimmed input
ResolveInput(input, type) ==
  LET m == IF type = "apps" THEN APP_TEMPLATE_REGEX(input) ELSE PACKAGE_TEMPLATE_REGEX(input) IN
  IF ~m.match THEN [error |-> "Invalid format", spec |-> NoSpec]
  ELSE IF m.name = <<>> THEN [error |-> "Invalid name", spec |-> NoSpec]
  ELSE IF m.template = Undefined
       THEN [error |-> "none",
             spec |-> [name |-> m.name, template |-> S("blank"), category |-> "blank"]]
  ELSE LET templateInfo == findTemplateInConfig(m.template, type) IN
       IF templateInfo = "null" THEN [error |-> "Template not found", spec |-> NoSpec]
       ELSE [error |-> "none",
             spec |-> [name |-> m.name, template |-> m.template, category |-> templateInfo]]

(***************************************************************************)
(* The file system: the set of directories and the files with their        *)
(* content.  A content is a record; a JSON file uses name, workspaces,     *)
(* scripts, deps and refs, a text file uses lines.  An operation takes the *)
(* file system st and returns the file system after it; ok = FALSE is an   *)
(* error thrown by the operation, and a later operation on such a file     *)
(* system is not executed.                                                 *)
(***************************************************************************)
EmptyFile ==
  [name |-> <<>>, workspaces |-> <<>>, scripts |-> {}, deps |-> {}, refs |-> <<>>,
   lines |-> <<>>]

Text(lines) == [EmptyFile EXCEPT !.lines = lines]

Parent(p) == SubSeq(p, 1, Len(p) - 1)

Prefixes(p) == {SubSeq(p, 1, k) : k \in 0..Len(p)}

Put(f, p, c) == [q \in DOMAIN f \cup {p} |-> IF q = p THEN c ELSE f[q]]

Throw(st) == [st EXCEPT !.ok = FALSE]

\* fs.mkdir(p, { recursive: true })
mkdir(st, p) ==
  IF ~st.ok THEN st
  ELSE IF \E q \in Prefixes(p) : q \in DOMAIN st.files THEN Throw(st)
  ELSE [st EXCEPT !.dirs = @ \cup Prefixes(p)]

\* fs.writeFile(p, c)
writeFile(st, p, c) ==
  IF ~st.ok THEN st
  ELSE IF Parent(p) \in st.dirs /\ p \notin st.dirs
       THEN [st EXCEPT !.files = Put(@, p, c)]
       ELSE Throw(st)

\* fs.access(p) resolves
access(st, p) == p \in st.dirs \/ p \in DOMAIN st.files

IsFile(st, p) == p \in DOMAIN st.files

writeJsonFile(st, p, obj) == writeFile(st, p, obj)

(***************************************************************************)
(* Names and paths                                                         *)
(***************************************************************************)
\* `@${projectName}/${name}`
Scoped(projectName, name) == <<"@">> \o projectName \o <<"/">> \o name

RECURSIVE UpTo(_, _)
UpTo(s, c) == IF s = <<>> \/ Head(s) = c THEN <<>> ELSE <<Head(s)>> \o UpTo(Tail(s), c)

RECURSIVE RemoveFirst(_, _)
RemoveFirst(s, c) ==
  IF s = <<>> THEN <<>>
  ELSE IF Head(s) = c THEN Tail(s) ELSE <<Head(s)>> \o RemoveFirst(Tail(s), c)

\* packageName.split("/")[0]?.replace("@", "")
BaseProjectName(packageName) == RemoveFirst(UpTo(packageName, "/"), "@")

(***************************************************************************)
(* Template assets (the templates/ directory of the tool)                  *)
(***************************************************************************)
ExpressIndexTs ==
  << S("import cors from \"cors\";"),
     S("import express from \"express\";"),
     S(""),
     S("const app = express();"),
     S("app.get(\"/api/users\", static)"),
     S("app.post(\"/api/users\", static)"),
     S("app.listen(port"),
     S("});") >>

HonoIndexTs ==
  << S("import { Hono } from \"hono\";"),
     S("import { cors } from \"hono/cors\";"),
     S(""),
     S("const app = new Hono();"),
     S("app.get(\"/api/users\", static)"),
     S("export default {") >>

\* templates/apps/react-vite/src/App.tsx; a line is its indentation followed
\* by its text, an empty line is <<>>
ReactViteAppTsx ==
  << S("import { useState } from \"react\";"),
     S("import \"./App.css\";"),
     <<>>,
     S("function App() {"),
     <<"\t", "const [count, setCount] = useState(0);">>,
     <<>>,
     <<"\t", "return (">>,
     <<"\t\t", "<>">>,
     <<"\t\t\t", "<div>">>,
     <<"\t\t\t\t", "<h1>Example app</h1>">>,
     <<"\t\t\t", "</div>">>,
     <<"\t\t\t", "<h2>Welcome to your React Vite app!</h2>">>,
     <<"\t\t\t", "<div className=\"card bg-red-500\">">>,
     <<"\t\t\t\t", "<button type=\"button\" onClick={() => setCount((count) => count + 1)}>">>,
     <<"\t\t\t\t\t", "count is {count}">>,
     <<"\t\t\t\t", "</button>">>,
     <<"\t\t\t\t", "<p>">>,
     <<"\t\t\t\t\t", "Edit <code>src/App.tsx</code> and save to test HMR">>,
     <<"\t\t\t\t", "</p>">>,
     <<"\t\t\t", "</div>">>,
     <<"\t\t\t", "<p className=\"read-the-docs\">Click on the Vite and React logos to learn more</p>">>,
     <<"\t\t", "</>">>,
     <<"\t", ");">>,
     S("}"),
     <<>>,
     S("export default App;") >>

\* templates/apps/nextjs-solito/src/app/page.tsx, without the two links
SolitoPageTsx ==
  << S("import { Link } from \"solito/link\";"),
     <<>>,
     S("export default function Home() {"),
     <<"\t", "return (">>,
     <<"\t\t", "<div className=\"flex min-h-screen flex-col items-center justify-center p-24\">">>,
     <<"\t\t\t\t", "<div className=\"flex gap-4 justify-center\">">>,
     <<"\t\t\t\t", "</div>">>,
     <<"\t\t", "</div>">>,
     <<"\t", ");">>,
     S("}") >>

\* templates/apps/react-native-expo/app/index.tsx, without the texts and the
\* styles; App.tsx of react-native-bare has the same counter
ReactNativeAppTsx ==
  << S("import { StatusBar } from \"expo-status-bar\";"),
     S("import { useState } from \"react\";"),
     S("import { StyleSheet, Text, TouchableOpacity, View } from \"react-native\";"),
     <<>>,
     S("export default function HomeScreen() {"),
     <<"\t", "const [count, setCount] = useState(0);">>,
     <<"\t", "return (">>,
     <<"\t\t\t", "<View style={styles.counterContainer}>">>,
     <<"\t\t\t\t", "<TouchableOpacity style={styles.button} onPress={() => setCount(count + 1)}>">>,
     <<"\t\t\t\t\t", "<Text style={styles.buttonText}>Count: {count}</Text>">>,
     <<"\t\t\t\t", "</TouchableOpacity>">>,
     <<"\t\t\t", "</View>">>,
     <<"\t", ");">>,
     S("}") >>

\* The files of a template directory: relative path and content.  Every
\* template directory holds a package.json.
TemplateTree(template) ==
  {[rel |-> <<S("package.json")>>, content |-> [EmptyFile EXCEPT !.name = S(template)]]}
  \cup (CASE template = "express" ->
               {[rel |-> <<S("src"), S("index.ts")>>, content |-> Text(ExpressIndexTs)]}
          [] template = "hono" ->
               {[rel |-> <<S("src"), S("index.ts")>>, content |-> Text(HonoIndexTs)]}
          [] template \in {"react-vite", "react-webpack"} ->
               {[rel |-> <<S("src"), S("App.tsx")>>, content |-> Text(ReactViteAppTsx)]}
          [] template = "react-native-expo" ->
               {[rel |-> <<S("app.json")>>,
                 content |-> Text(<< <<"name: ", "{{name}}">>, <<"slug: ", "{{appName}}">> >>)],
                [rel |-> <<S("app"), S("index.tsx")>>, content |-> Text(ReactNativeAppTsx)]}
          [] template = "react-native-bare" ->
               {[rel |-> <<S("App.tsx")>>, content |-> Text(ReactNativeAppTsx)]}
          [] template = "nextjs-solito" ->
               {[rel |-> <<S("src"), S("app"), S("page.tsx")>>, content |-> Text(SolitoPageTsx)]}
          [] OTHER -> {})

(***************************************************************************)
(* lib/shared-setup: the per-app and per-package pipeline                  *)
(***************************************************************************)
\* The word of a one-word string, for comparisons such as template === "ui".
W(s) == IF Len(s) = 1 THEN s[1] ELSE "<other>"

NoOrm == [type |-> "undefined", database |-> "undefined"]

\* orm && orm.type !== "none"
OrmConfigured(orm) == orm.type \notin {"undefined", "none"}

\* utils/file.ts processTemplateFile: filePath.split(".").pop() of the file names
\* of the assets and the allow-list of text extensions
ExtOf(fileName) ==
  CASE fileName \in {S("package.json"), S("app.json"), S("tsconfig.json")} -> "json"
    [] fileName \in {S("index.ts"), <<"dist", "ance.ts">>} -> "ts"
    [] fileName \in {S("App.tsx"), S("index.tsx"), S("page.tsx"), S("welcome.tsx")} -> "tsx"
    [] fileName \in {S("index.js")} -> "js"
    [] fileName \in {S("logo.png")} -> "png"
    [] OTHER -> "none"

textExtensions ==
  {"json", "js", "ts", "tsx", "jsx", "md", "txt", "yml", "yaml", "xml", "html", "css", "scss"}

\* The replacement string of String.prototype.replace: the pattern $& in it
\* stands for the matched text.
RECURSIVE Expand(_, _)
Expand(value, matched) ==
  IF value = <<>> THEN <<>>
  ELSE (IF Head(value) = "$&" THEN <<matched>> ELSE <<Head(value)>>)
         \o Expand(Tail(value), matched)

\* content.replace(new RegExp(`\\{\\{${placeholder}\\}\\}`, "g"), value) on one line
RECURSIVE ReplaceInLine(_, _, _)
ReplaceInLine(line, placeholder, value) ==
  IF line = <<>> THEN <<>>
  ELSE (IF Head(line) = placeholder THEN Expand(value, placeholder) ELSE <<Head(line)>>)
         \o ReplaceInLine(Tail(line), placeholder, value)

ReplaceInLines(lines, placeholder, value) ==
  [i \in 1..Len(lines) |-> ReplaceInLine(lines[i], placeholder, value)]

\* content.includes(`{{${placeholder}}}`)
ContentIncludes(lines, placeholder) == \E i \in 1..Len(lines) : Includes(lines[i], placeholder)

\* The loop of processTemplateFile over Object.entries(replacements): appName
\* and then name, each on the content the one before has left
AfterAppName(lines, replacements) ==
  IF ContentIncludes(lines, "{{appName}}")
  THEN ReplaceInLines(lines, "{{appName}}", replacements.appName) ELSE lines

hasReplacements(lines, replacements) ==
  \/ ContentIncludes(lines, "{{appName}}")
  \/ ContentIncludes(AfterAppName(lines, replacements), "{{name}}")

processTemplateFile(content, replacements) ==
  [content EXCEPT !.lines =
     LET c1 == AfterAppName(@, replacements) IN
     IF ContentIncludes(c1, "{{name}}") THEN ReplaceInLines(c1, "{{name}}", replacements.name)
     ELSE c1]

\* The files processTemplateReplacements reads under targetPath and writes back
RewrittenFiles(st, targetPath, replacements) ==
  {q \in DOMAIN st.files :
     /\ Len(q) > Len(targetPath)
     /\ SubSeq(q, 1, Len(targetPath)) = targetPath
     /\ ExtOf(q[Len(q)]) \in textExtensions
     /\ hasReplacements(st.files[q].lines, replacements)}

processTemplateReplacements(st, targetPath, replacements) ==
  IF ~st.ok THEN st
  ELSE [st EXCEPT !.files =
          [q \in DOMAIN @ |->
             IF q \in RewrittenFiles(st, targetPath, replacements)
             THEN processTemplateFile(@[q], replacements)
             ELSE @[q]]]

NoReplacements == [appName |-> Undefined, name |-> Undefined]

\* The directories of a tree of files, as paths relative to its root
TreeDirs(tree) == UNION {Prefixes(Parent(e.rel)) : e \in tree}

\* fs.cp(source, targetPath, { recursive: true }) of the directories treeDirs
\* and the files tree of the source
cp(st, treeDirs, tree, targetPath) ==
  IF ~st.ok THEN st
  ELSE LET dirsOfTree == UNION {Prefixes(targetPath \o d) : d \in treeDirs}
           blocked == \E d \in dirsOfTree : d \in DOMAIN st.files
       IN IF blocked \/ \E e \in tree : (targetPath \o e.rel) \in st.dirs
          THEN Throw(st)
          ELSE [st EXCEPT
                  !.dirs = @ \cup dirsOfTree \cup Prefixes(targetPath),
                  !.files = [q \in DOMAIN @ \cup {targetPath \o e.rel : e \in tree} |->
                               IF \E e \in tree : targetPath \o e.rel = q
                               THEN (CHOOSE e \in tree : targetPath \o e.rel = q).content
                               ELSE @[q]]]

\* filter of copyTemplateFiles on src.replace(templatePath, ""): the relative
\* path, a string, holds neither "node_modules" nor "dist"
CopyFilter(rel) ==
  \A i \in 1..Len(rel) : ~Includes(rel[i], "node_modules") /\ ~Includes(rel[i], "dist")

\* cp with the filter: a directory or file the filter rejects is skipped with
\* all below it
cpTemplate(st, tree, targetPath) ==
  cp(st, {d \in TreeDirs(tree) : CopyFilter(d)}, {e \in tree : CopyFilter(e.rel)}, targetPath)

copyTemplateFiles(st, template, category, targetPath, replacements) ==
  IF ~st.ok THEN st
  ELSE IF ~TemplatePath(category, template) THEN Throw(st)
  ELSE LET copied == cpTemplate(st, TemplateTree(template[1]), targetPath) IN
       IF replacements # NoReplacements
       THEN processTemplateReplacements(copied, targetPath, replacements)
       ELSE copied

\* dependencyPackages: the sequence of package specs to depend on
updatePackageJson(st, targetPath, packageName, dependencyPackages) ==
  LET packageJsonPath == targetPath \o <<S("package.json")>> IN
  IF ~st.ok THEN st
  ELSE IF ~IsFile(st, packageJsonPath) THEN Throw(st)
  ELSE LET packageJson == st.files[packageJsonPath]
           baseProjectName == BaseProjectName(packageName)
           added == {Scoped(baseProjectName, dependencyPackages[i].name) :
                       i \in 1..Len(dependencyPackages)}
       IN writeJsonFile(st, packageJsonPath,
                        [packageJson EXCEPT !.name = packageName, !.deps = @ \cup added])

createBlankApp(st, appPath, appName, projectName, packages) ==
  LET packageJson ==
        [EmptyFile EXCEPT
           !.name = Scoped(projectName, appName),
           !.scripts = {"dev", "build", "start"},
           !.deps = {Scoped(projectName, packages[i].name) : i \in 1..Len(packages)}]
      st1 == writeJsonFile(st, appPath \o <<S("package.json")>>, packageJson)
      st2 == writeJsonFile(st1, appPath \o <<S("tsconfig.json")>>, EmptyFile)
  IN writeFile(st2, appPath \o <<S("index.ts")>>,
               Text(<< <<"export const appName = ">> \o appName >>))

\* pkgName.split("/").pop()
LastSegment(s) ==
  LET slashes == {i \in 1..Len(s) : s[i] = "/"} IN
  IF slashes = {} THEN s
  ELSE SubSeq(s, (CHOOSE i \in slashes : \A j \in slashes : j <= i) + 1, Len(s))

createBlankPackage(st, pkgPath, pkgName) ==
  LET packageName == IF LastSegment(pkgName) = <<>> THEN pkgName ELSE LastSegment(pkgName)
      packageJson == [EmptyFile EXCEPT !.name = pkgName, !.scripts = {"build", "dev"}]
      st1 == writeJsonFile(st, pkgPath \o <<S("package.json")>>, packageJson)
      st2 == writeJsonFile(st1, pkgPath \o <<S("tsconfig.json")>>, EmptyFile)
  IN writeFile(st2, pkgPath \o <<S("index.ts")>>, Text(<< <<"export const name = ">> \o packageName >>))

(***************************************************************************)
(* injections/orm-injection.ts and injections/ui-injection.ts              *)
(***************************************************************************)
\* The first index >= i of seq whose element is one of matching, or 0.
FirstIndex(seq, i, matching) ==
  LET found == {k \in i..Len(seq) : seq[k] \in matching} IN
  IF found = {} THEN 0 ELSE CHOOSE k \in found : \A j \in found : k <= j

\* seq with the elements of new inserted before position i
InsertBefore(seq, i, new) == SubSeq(seq, 1, i - 1) \o new \o SubSeq(seq, i, Len(seq))

IsImportLine(line) ==
  /\ line # <<>>
  /\ Head(line) \in {"import cors from \"cors\";", "import express from \"express\";",
                     "import { Hono } from \"hono\";", "import { cors } from \"hono/cors\";",
                     "import { db } from ", "import { db, type NewUser, users } from ",
                     "import { eq } from \"drizzle-orm\";"}

DbImport(orm, projectName) ==
  (IF orm.type = "drizzle" THEN <<"import { db, type NewUser, users } from ">>
   ELSE <<"import { db } from ">>) \o Scoped(projectName, S("db"))

userRoutes(orm) ==
  << S("// ORM Test endpoint"),
     <<"app.get(\"/orm-test\") orm: ", orm.type>>,
     S("// User routes"),
     <<"app.get(\"/api/users\", db) ", orm.type>>,
     <<"app.post(\"/api/users\", db) ", orm.type>>,
     <<"app.get(\"/api/users/:id\", db) ", orm.type>> >>

addExpressOrmEndpoints(content, orm, projectName) ==
  LET IsCors(line) == line = S("import cors from \"cors\";")
      IsListen(line) == line = S("app.listen(port")
      withPrefix == <<DbImport(orm, projectName), S("")>> \o content
      c == FirstIndex(withPrefix, 1, {x \in RangeOf(withPrefix) : IsCors(x)})
      withImports ==
        IF c # 0 /\ orm.type = "drizzle"
        THEN InsertBefore(withPrefix, c + 1, <<S("import { eq } from \"drizzle-orm\";"), S("")>>)
        ELSE withPrefix
      l == FirstIndex(withImports, 1, {x \in RangeOf(withImports) : IsListen(x)})
  IN IF l = 0 THEN withImports ELSE InsertBefore(withImports, l, userRoutes(orm))

\* A variant of addHonoOrmEndpoints that puts the imports after the first
\* import line instead of before it.
addHonoOrmEndpointsAfterFirst(content, orm, projectName) ==
  LET IsExport(line) == line = S("export default {")
      prefix ==
        IF orm.type = "drizzle"
        THEN <<DbImport(orm, projectName), S("import { eq } from \"drizzle-orm\";")>>
        ELSE <<DbImport(orm, projectName)>>
      i == FirstIndex(content, 1, {x \in RangeOf(content) : IsImportLine(x)})
      withImports == IF i = 0 THEN content ELSE InsertBefore(content, i + 1, prefix)
      e == FirstIndex(withImports, 1, {x \in RangeOf(withImports) : IsExport(x)})
  IN IF e = 0 THEN withImports ELSE InsertBefore(withImports, e, userRoutes(orm) \o <<S("")>>)

addHonoOrmEndpoints(content, orm, projectName) ==
  LET IsExport(line) == line = S("export default {")
      prefix ==
        IF orm.type = "drizzle"
        THEN <<DbImport(orm, projectName), S("import { eq } from \"drizzle-orm\";")>>
        ELSE <<DbImport(orm, projectName)>>
      i == FirstIndex(content, 1, {x \in RangeOf(content) : IsImportLine(x)})
      withImports == IF i = 0 THEN content ELSE InsertBefore(content, i, prefix)
      e == FirstIndex(withImports, 1, {x \in RangeOf(withImports) : IsExport(x)})
  IN IF e = 0 THEN withImports ELSE InsertBefore(withImports, e, userRoutes(orm) \o <<S("")>>)

\* A variant of addOrmEndpoints without the access check: the read of a
\* missing src/index.ts throws, and the file is written for any framework.
addOrmEndpointsUnchecked(st, base, appRel, framework, orm) ==
  LET indexPath == base \o appRel \o <<S("src"), S("index.ts")>>
      projectName == appRel[1]
  IN IF ~st.ok THEN st
     ELSE IF ~IsFile(st, indexPath) THEN Throw(st)
     ELSE LET indexContent == st.files[indexPath].lines IN
          IF framework = "hono"
          THEN writeFile(st, indexPath, Text(addHonoOrmEndpoints(indexContent, orm, projectName)))
          ELSE writeFile(st, indexPath, Text(addExpressOrmEndpoints(indexContent, orm, projectName)))

\* appRel: the path as the code holds it, relative to the working directory
addOrmEndpoints(st, base, appRel, framework, orm) ==
  LET indexPath == base \o appRel \o <<S("src"), S("index.ts")>>
      IsApps(part) == part = S("apps")
      appsIndex == FirstIndex(appRel, 1, {x \in RangeOf(appRel) : IsApps(x)})
      projectName == IF appsIndex > 1 THEN appRel[appsIndex - 1] ELSE S("project")
  IN IF ~st.ok THEN st
     ELSE IF ~access(st, indexPath) THEN st
     ELSE IF ~IsFile(st, indexPath) THEN Throw(st)
     ELSE LET indexContent == st.files[indexPath].lines IN
          IF framework = "express"
          THEN writeFile(st, indexPath, Text(addExpressOrmEndpoints(indexContent, orm, projectName)))
          ELSE IF framework = "hono"
          THEN writeFile(st, indexPath, Text(addHonoOrmEndpoints(indexContent, orm, projectName)))
          ELSE st

Warn(st, p) == [st EXCEPT !.warn = @ \cup {p}]

\* A file content as one string: every line followed by a line break
RECURSIVE Flat(_)
Flat(lines) == IF lines = <<>> THEN <<>> ELSE Head(lines) \o <<"\n">> \o Flat(Tail(lines))

RECURSIVE Unflat(_)
Unflat(s) ==
  LET n == FirstIndex(s, 1, {"\n"}) IN
  IF s = <<>> THEN <<>>
  ELSE IF n = 0 THEN <<s>>
  ELSE <<SubSeq(s, 1, n - 1)>> \o Unflat(SubSeq(s, n + 1, Len(s)))

\* \s
IsSpace(t) == t \in {"\n", " ", "\t", "\t\t", "\t\t\t", "\t\t\t\t", "\t\t\t\t\t", "\t\t\t\t\t\t"}

\* A regular expression is a sequence of items: a piece of text that one of
\* the given tokens matches, or \s*
Lit(tokens) == [space |-> FALSE, of |-> tokens]
Sp == [space |-> TRUE, of |-> {}]

\* The index of the last token of the match of pat[j..] at pos, or -1
RECURSIVE MatchEnd(_, _, _, _)
MatchEnd(s, pos, pat, j) ==
  IF j > Len(pat) THEN pos - 1
  ELSE IF pat[j].space
       THEN IF pos <= Len(s) /\ IsSpace(s[pos]) THEN MatchEnd(s, pos + 1, pat, j)
            ELSE MatchEnd(s, pos, pat, j + 1)
  ELSE IF pos <= Len(s) /\ s[pos] \in pat[j].of THEN MatchEnd(s, pos + 1, pat, j + 1)
  ELSE -1

\* content.replace(regex, replacement) with a regex that is not global
ReplaceFirst(s, pat, replacement) ==
  LET found == {p \in 1..Len(s) : MatchEnd(s, p, pat, 1) # -1} IN
  IF found = {} THEN s
  ELSE LET p == CHOOSE q \in found : \A r \in found : q <= r IN
       SubSeq(s, 1, p - 1) \o replacement \o SubSeq(s, MatchEnd(s, p, pat, 1) + 1, Len(s))

REACT_IMPORT_REGEX == <<Lit({"import { useState } from \"react\";"})>>

\* Openings that <button type="button" onClick=\{[^}]+\}> matches
ReactButtonOpenings ==
  {"<button type=\"button\" onClick={() => setCount((count) => count + 1)}>",
   "<button type=\"button\" onClick={increment}>"}

REACT_BUTTON_REGEX ==
  <<Lit(ReactButtonOpenings), Sp, Lit({"count is {count}"}), Sp, Lit({"</button>"})>>

\* Openings that <button\s+[^>]*onClick=\{[^}]+\}[^>]*> matches
WEBPACK_BUTTON_REGEX ==
  <<Lit(ReactButtonOpenings \cup {"<button onClick={() => setCount(count + 1)} className=\"btn\">"}),
    Sp, Lit({"Count: {count}"}), Sp, Lit({"</button>"})>>

SOLITO_LINK_REGEX == <<Lit({"import { Link } from \"solito/link\";"})>>
SOLITO_HOME_REGEX == <<Lit({"export default function Home() {"})>>
SOLITO_DIV_REGEX == <<Lit({"<div className=\"flex gap-4 justify-center\">"})>>
REACT_ROUTER_INDEX_REGEX == <<Lit({"export function Welcome() {"}), Sp, Lit({"return ("})>>
REACT_ROUTER_UL_REGEX == <<Lit({"<ul>"})>>

RN_TOUCHABLE_REGEX ==
  <<Lit({"<TouchableOpacity style={styles.button} onPress={() => setCount(count + 1)}>"}), Sp,
    Lit({"<Text style={styles.buttonText}>Count: {count}</Text>", "<Text>Count: {count}</Text>"}), Sp,
    Lit({"</TouchableOpacity>"})>>

\* import { Button } from "@${projectName}/<package>";
ButtonImport(projectName, package) == <<"import { Button } from ">> \o Scoped(projectName, S(package))

UseStateImport == "import { useState } from \"react\";"

\* A variant of injectReactUIDemo without the try/catch: a missing App.tsx
\* throws.
injectReactUIDemoUncaught(st, appPath, projectName) ==
  LET appFilePath == appPath \o <<S("src"), S("App.tsx")>> IN
  IF ~st.ok THEN st
  ELSE IF ~IsFile(st, appFilePath) THEN Throw(st)
  ELSE writeFile(st, appFilePath,
         Text(Unflat(ReplaceFirst(
           ReplaceFirst(Flat(st.files[appFilePath].lines), REACT_IMPORT_REGEX,
                        ButtonImport(projectName, "ui") \o <<"\n", UseStateImport>>),
           REACT_BUTTON_REGEX,
           <<"<Button onClick={() => setCount((count) => count + 1)}>count is {count}</Button>">>))))

\* A variant of injectReactUIDemo whose button regex takes the indentation
\* before the button with it.
injectReactUIDemoGreedy(st, appPath, projectName) ==
  LET appFilePath == appPath \o <<S("src"), S("App.tsx")>> IN
  IF ~st.ok THEN st
  ELSE IF ~IsFile(st, appFilePath) THEN Warn(st, appFilePath)
  ELSE writeFile(st, appFilePath,
         Text(Unflat(ReplaceFirst(
           ReplaceFirst(Flat(st.files[appFilePath].lines), REACT_IMPORT_REGEX,
                        ButtonImport(projectName, "ui") \o <<"\n", UseStateImport>>),
           <<Lit({"\t\t\t\t"})>> \o REACT_BUTTON_REGEX,
           <<"<Button onClick={() => setCount((count) => count + 1)}>count is {count}</Button>">>))))

\* readFile, the two replacements and writeFile are inside try/catch; the
\* catch logs a warning
injectReactUIDemo(st, appPath, projectName) ==
  LET appFilePath == appPath \o <<S("src"), S("App.tsx")>> IN
  IF ~st.ok THEN st
  ELSE IF ~IsFile(st, appFilePath) THEN Warn(st, appFilePath)
  ELSE writeFile(st, appFilePath,
         Text(Unflat(ReplaceFirst(
           ReplaceFirst(Flat(st.files[appFilePath].lines), REACT_IMPORT_REGEX,
                        ButtonImport(projectName, "ui") \o <<"\n", UseStateImport>>),
           REACT_BUTTON_REGEX,
           <<"<Button onClick={() => setCount((count) => count + 1)}>count is {count}</Button>">>))))

injectNextJSUIDemo(st, appPath, projectName) ==
  LET pageFilePath == appPath \o <<S("src"), S("app"), S("page.tsx")>> IN
  IF ~st.ok THEN st
  ELSE IF ~IsFile(st, pageFilePath) THEN Warn(st, pageFilePath)
  ELSE writeFile(st, pageFilePath,
         Text(Unflat(ReplaceFirst(
           ReplaceFirst(Flat(st.files[pageFilePath].lines), REACT_IMPORT_REGEX,
                        ButtonImport(projectName, "ui") \o <<"\n", UseStateImport>>),
           WEBPACK_BUTTON_REGEX,
           <<"<Button onClick={() => setCount(count + 1)}>Count: {count}</Button>">>))))

injectNextJSSolitoUIDemo(st, appPath, projectName) ==
  LET pageFilePath == appPath \o <<S("src"), S("app"), S("page.tsx")>> IN
  IF ~st.ok THEN st
  ELSE IF ~IsFile(st, pageFilePath) THEN Warn(st, pageFilePath)
  ELSE writeFile(st, pageFilePath,
         Text(Unflat(ReplaceFirst(ReplaceFirst(
           ReplaceFirst(Flat(st.files[pageFilePath].lines), SOLITO_LINK_REGEX,
                        ButtonImport(projectName, "ui-native")
                          \o <<"\n", UseStateImport, "\n", "import { Link } from \"solito/link\";">>),
           SOLITO_HOME_REGEX,
           <<"export default function Home() {", "\n", "\t", "const [count, setCount] = useState(0);">>),
           SOLITO_DIV_REGEX,
           <<"<div className=\"mb-8\">", "\n",
             "\t\t\t\t\t", "<Button onPress={() => setCount(count + 1)}>Count: {count}</Button>", "\n",
             "\t\t\t\t", "</div>", "\n", "\n",
             "\t\t\t\t", "<div className=\"flex gap-4 justify-center\">">>))))

injectReactRouterUIDemo(st, appPath, projectName) ==
  LET indexFilePath == appPath \o <<S("app"), S("welcome"), S("welcome.tsx")>> IN
  IF ~st.ok THEN st
  ELSE IF ~IsFile(st, indexFilePath) THEN Warn(st, indexFilePath)
  ELSE writeFile(st, indexFilePath,
         Text(Unflat(ReplaceFirst(ReplaceFirst(
           ButtonImport(projectName, "ui") \o <<"\n", UseStateImport, "\n">>
             \o Flat(st.files[indexFilePath].lines),
           REACT_ROUTER_INDEX_REGEX,
           <<"export function Welcome() {", "\n", "\t", "const [count, setCount] = useState(0);", "\n",
             "\n", "\t", "return (">>),
           REACT_ROUTER_UL_REGEX,
           <<"<div style={{ marginBottom: \"2rem\" }}>", "\n",
             "\t\t\t\t\t\t", "<Button onClick={() => setCount((count) => count + 1)}>Count is {count}</Button>", "\n",
             "\t\t\t\t\t\t", "</div>", "\n",
             "\t\t\t\t\t\t", "<ul>">>))))

\* fileExists(app/index.tsx) decides between the file of Expo and App.tsx
injectReactNativeUIDemo(st, appPath, projectName) ==
  LET expoFilePath == appPath \o <<S("app"), S("index.tsx")>>
      appFilePath == IF IsFile(st, expoFilePath) THEN expoFilePath ELSE appPath \o <<S("App.tsx")>>
  IN IF ~st.ok THEN st
     ELSE IF ~IsFile(st, appFilePath) THEN Warn(st, appFilePath)
     ELSE writeFile(st, appFilePath,
            Text(Unflat(
              ButtonImport(projectName, "ui-native") \o <<"\n">>
                \o ReplaceFirst(Flat(st.files[appFilePath].lines), RN_TOUCHABLE_REGEX,
                     <<"<TouchableOpacity onPress={() => setCount(count + 1)}>", "\n",
                       "\t\t\t\t\t\t", "<Text>Count: {count}</Text>", "\n",
                       "\t\t\t\t\t", "</TouchableOpacity>", "\n",
                       "\t\t\t\t\t", "<Button onPress={() => setCount(count + 1)}>Count: {count}</Button>">>))))

\* A variant of injectUIComponentDemos that injects into a React app as soon
\* as any of the two UI packages is there.
injectUIComponentDemosAnyKind(st, appPath, app, packages, projectName) ==
  LET hasUIPackage == \E i \in 1..Len(packages) : packages[i].template = S("ui")
      hasUINativePackage == \E i \in 1..Len(packages) : packages[i].template = S("ui-native")
      t == W(app.template)
  IN IF ~st.ok \/ (~hasUIPackage /\ ~hasUINativePackage) THEN st
     ELSE IF t \in {"react-vite", "react-webpack"} THEN injectReactUIDemo(st, appPath, projectName)
     ELSE IF t = "nextjs" THEN injectNextJSUIDemo(st, appPath, projectName)
     ELSE IF t = "nextjs-solito" THEN injectNextJSSolitoUIDemo(st, appPath, projectName)
     ELSE IF t = "react-router" THEN injectReactRouterUIDemo(st, appPath, projectName)
     ELSE IF t \in {"react-native-expo", "react-native-bare"}
          THEN injectReactNativeUIDemo(st, appPath, projectName)
     ELSE st

injectUIComponentDemos(st, appPath, app, packages, projectName) ==
  LET hasUIPackage == \E i \in 1..Len(packages) : packages[i].template = S("ui")
      hasUINativePackage == \E i \in 1..Len(packages) : packages[i].template = S("ui-native")
      t == W(app.template)
  IN IF ~st.ok \/ (~hasUIPackage /\ ~hasUINativePackage) THEN st
     ELSE IF t \in {"react-vite", "react-webpack"} /\ hasUIPackage
          THEN injectReactUIDemo(st, appPath, projectName)
     ELSE IF t = "nextjs" /\ hasUIPackage
          THEN injectNextJSUIDemo(st, appPath, projectName)
     ELSE IF t = "nextjs-solito" /\ hasUINativePackage
          THEN injectNextJSSolitoUIDemo(st, appPath, projectName)
     ELSE IF t = "react-router" /\ hasUIPackage
          THEN injectReactRouterUIDemo(st, appPath, projectName)
     ELSE IF t \in {"react-native-expo", "react-native-bare"} /\ hasUINativePackage
          THEN injectReactNativeUIDemo(st, appPath, projectName)
     ELSE st

(***************************************************************************)
(* createAppWithProcessing / createPackageWithProcessing                   *)
(***************************************************************************)
\* The filter of createAppWithProcessing on the package list
DependencyFilter(app, pkg) ==
  LET t == W(app.template) p == W(pkg.template) IN
  \/ t \in NATIVE_FRAMEWORKS /\ p = "ui-native"
  \/ (t \in REACT_FRAMEWORKS /\ p = "ui") \/ p = "hooks"
  \/ p = "utils" \/ p = "schemas"

\* base: the working directory the relative path of the app is resolved in
createAppWithProcessing(st, base, projectName, app, packages, orm) ==
  LET appRel == <<projectName, S("apps"), app.name>>
      appPath == base \o appRel
      st1 == mkdir(st, appPath)
      replacements ==
        IF W(app.template) = "react-native-expo"
        THEN [appName |-> projectName, name |-> projectName \o <<"-">> \o app.name]
        ELSE NoReplacements
      copied == copyTemplateFiles(st1, app.template, app.category, appPath, replacements)
      st2 == IF app.template # S("blank")
             THEN IF OrmConfigured(orm) /\ W(app.template) \in ORM_FRAMEWORKS
                  THEN addOrmEndpoints(copied, base, appRel, W(app.template), orm)
                  ELSE copied
             ELSE createBlankApp(st1, appPath, app.name, projectName, packages)
      Keep(pkg) == DependencyFilter(app, pkg)
      st3 == updatePackageJson(st2, appPath, Scoped(projectName, app.name),
                               SelectSeq(packages, Keep))
  IN injectUIComponentDemos(st3, appPath, app, packages, projectName)

createPackageWithProcessing(st, base, projectName, pkg) ==
  LET pkgPath == base \o <<projectName, S("packages"), pkg.name>>
      st1 == mkdir(st, pkgPath)
  IN IF pkg.template # S("blank")
     THEN updatePackageJson(copyTemplateFiles(st1, pkg.template, pkg.category, pkgPath, NoReplacements),
                            pkgPath, Scoped(projectName, pkg.name), <<>>)
     ELSE createBlankPackage(st1, pkgPath, Scoped(projectName, pkg.name))

(***************************************************************************)
(* lib/orm-setup and injections/docker-compose                             *)
(***************************************************************************)
createOrmConfig(ormType, database) == [type |-> ormType, database |-> database]

getOrmDependencies(orm) ==
  CASE orm.type = "drizzle" ->
         {S("drizzle-orm"), S("drizzle-kit")}
           \cup (CASE orm.database = "postgresql" -> {S("postgres")}
                   [] orm.database = "mysql" -> {S("mysql2")}
                   [] orm.database = "sqlite" -> {S("better-sqlite3"), S("@types/better-sqlite3")}
                   [] OTHER -> {})
    [] orm.type = "prisma" -> {S("@prisma/client"), S("prisma")}
    [] OTHER -> {}

getOrmScripts(orm) ==
  CASE orm.type = "drizzle" -> {"db:generate", "db:migrate", "db:studio", "db:push"}
    [] orm.type = "prisma" ->
         {"db:generate", "db:migrate", "db:studio", "db:push", "db:reset", "db:seed"}
    [] OTHER -> {}

\* The scripts updateDbPackageJson adds to the package.json of the db package
DbPackageScripts(ormType) ==
  IF ormType = "drizzle" THEN {"db:generate", "db:push", "db:migrate", "db:studio"}
  ELSE {"db:generate", "db:push", "db:migrate", "db:studio", "db:seed"}

updateDbPackageJson(st, dbPackagePath, ormType, database) ==
  LET packageJsonPath == dbPackagePath \o <<S("package.json")>> IN
  IF ~st.ok THEN st
  ELSE IF ~IsFile(st, packageJsonPath) THEN Throw(st)
  ELSE writeJsonFile(st, packageJsonPath,
         [st.files[packageJsonPath] EXCEPT
            !.deps = @ \cup getOrmDependencies([type |-> ormType, database |-> database]),
            !.scripts = @ \cup DbPackageScripts(ormType)])

createDrizzleSetup(st, rootPath, database) ==
  LET dbPackagePath == rootPath \o <<S("packages"), S("db")>>
      st1 == mkdir(st, dbPackagePath \o <<S("src")>>)
      st2 == updateDbPackageJson(st1, dbPackagePath, "drizzle", database)
      st3 == writeFile(st2, dbPackagePath \o <<S("src"), S("client.ts")>>, Text(<<<<"drizzle client ", database>>>>))
      st4 == writeFile(st3, dbPackagePath \o <<S("src"), S("schema.ts")>>, Text(<<<<"drizzle schema ", database>>>>))
      st5 == writeFile(st4, dbPackagePath \o <<S("src"), S("index.ts")>>, Text(<<S("export * from \"./client\";"), S("export * from \"./schema\";")>>))
      st6 == writeFile(st5, dbPackagePath \o <<S("drizzle.config.ts")>>, Text(<<<<"drizzle config ", database>>>>))
  IN writeFile(st6, rootPath \o <<S(".env.example")>>, Text(<<<<"DATABASE_URL drizzle ", database>>>>))

createPrismaSetup(st, rootPath, database) ==
  LET dbPackagePath == rootPath \o <<S("packages"), S("db")>>
      st1 == mkdir(st, dbPackagePath \o <<S("src")>>)
      st2 == updateDbPackageJson(st1, dbPackagePath, "prisma", database)
      st3 == writeFile(st2, dbPackagePath \o <<S("src"), S("client.ts")>>, Text(<<S("prisma client")>>))
      st4 == writeFile(st3, dbPackagePath \o <<S("src"), S("index.ts")>>, Text(<<S("export * from \"./client\";")>>))
      st5 == mkdir(st4, dbPackagePath \o <<S("prisma")>>)
      st6 == writeFile(st5, dbPackagePath \o <<S("prisma"), S("schema.prisma")>>, Text(<<<<"prisma schema ", database>>>>))
      st7 == writeFile(st6, dbPackagePath \o <<S("src"), S("seed.ts")>>, Text(<<S("prisma seed")>>))
  IN writeFile(st7, rootPath \o <<S(".env.example")>>, Text(<<<<"DATABASE_URL prisma ", database>>>>))

createOrmSetup(st, rootPath, orm) ==
  IF orm.type = "drizzle" THEN createDrizzleSetup(st, rootPath, orm.database)
  ELSE IF orm.type = "prisma" THEN createPrismaSetup(st, rootPath, orm.database)
  ELSE st

generateDockerComposeContent(orm) ==
  CASE orm.database = "postgresql" -> <<S("services:"), S("  postgres:"), S("  pgadmin:")>>
    [] orm.database = "mysql" -> <<S("services:"), S("  mysql:"), S("  phpmyadmin:")>>
    [] orm.database = "sqlite" -> <<S("services:"), S("  sqlite-browser:")>>
    [] OTHER -> <<>>

addDockerCompose(st, rootPath, orm) ==
  IF orm.type = "none" THEN st
  ELSE writeFile(st, rootPath \o <<S("docker-compose.dev.yml")>>, Text(generateDockerComposeContent(orm)))

(***************************************************************************)
(* create-command.ts: the root files of createMonorepo                     *)
(***************************************************************************)
LintScripts(linting) ==
  IF linting \in {"biome", "eslint-prettier"} THEN {"lint", "lint:fix", "format"} ELSE {}

createRootPackageJson(st, root, appName, linting, packages, orm) ==
  writeJsonFile(st, root \o <<S("package.json")>>,
    [EmptyFile EXCEPT
       !.name = appName,
       !.workspaces = <<S("apps/*")>> \o (IF Len(packages) > 0 THEN <<S("packages/*")>> ELSE <<>>),
       !.scripts = {"build", "dev", "typecheck"} \cup LintScripts(linting)
                     \cup (IF orm = NoOrm THEN {} ELSE getOrmScripts(orm)),
       !.deps = IF orm = NoOrm THEN {} ELSE getOrmDependencies(orm)])

createRootTsConfig(st, root, apps, packages) ==
  LET references ==
        [i \in 1..Len(packages) |-> <<"packages", "/">> \o packages[i].name]
          \o [i \in 1..Len(apps) |-> <<"apps", "/">> \o apps[i].name]
      st1 == writeJsonFile(st, root \o <<S("tsconfig.json")>>, [EmptyFile EXCEPT !.refs = references])
  IN writeFile(st1, root \o <<S("tsconfig.base.json")>>, Text(<<S("tsconfig.base.json")>>))

createLintingConfig(st, root, linting, apps) ==
  LET ignoreContents ==
        <<S("bun.lock"), S("node_modules"), S("dist")>>
          \o (IF \E i \in 1..Len(apps) : W(apps[i].template) \in {"nextjs", "nextjs-solito"}
              THEN <<S(".next"), S("out")>> ELSE <<>>)
  IN IF linting = "biome"
     THEN LET st1 == writeFile(st, root \o <<S("biome.json")>>, Text(<<S("biome.json")>>))
              st2 == writeFile(st1, root \o <<S(".biomeignore")>>, Text(ignoreContents))
          IN cp(st2, {<<>>}, {[rel |-> <<S("settings.json")>>, content |-> Text(<<S("biome settings")>>)]},
                root \o <<S(".vscode")>>)
     ELSE IF linting = "eslint-prettier"
     THEN LET st1 == writeJsonFile(st, root \o <<S(".eslintrc.json")>>, EmptyFile)
              st2 == writeJsonFile(st1, root \o <<S(".prettierrc")>>, EmptyFile)
              st3 == writeFile(st2, root \o <<S(".eslintignore")>>, Text(ignoreContents))
          IN writeFile(st3, root \o <<S(".prettierignore")>>, Text(ignoreContents))
     ELSE st

\* A variant of createGitignore that also puts a .gitignore into the
\* directory of every app, before the step of that app.
RECURSIVE GitignorePerApp(_, _, _, _)
GitignorePerApp(st, root, apps, i) ==
  IF i > Len(apps) THEN st
  ELSE GitignorePerApp(
         writeFile(mkdir(st, root \o <<S("apps"), apps[i].name>>),
                   root \o <<S("apps"), apps[i].name, S(".gitignore")>>,
                   Text(<<S("node_modules/"), S("dist/")>>)),
         root, apps, i + 1)

createGitignorePerApp(st, root, apps) ==
  GitignorePerApp(
    writeFile(st, root \o <<S(".gitignore")>>,
              Text(<<S("node_modules/"), S("dist/"), S("build/"), S("*.log"), S(".DS_Store"), S(".env")>>)),
    root, apps, 1)

createGitignore(st, root, apps) ==
  writeFile(st, root \o <<S(".gitignore")>>,
    Text(<<S("node_modules/"), S("dist/"), S("build/"), S("*.log"), S(".DS_Store"), S(".env")>>
           \o (IF \E i \in 1..Len(apps) : W(apps[i].template) \in {"nextjs", "nextjs-solito"}
               THEN <<S(".next/"), S("out/")>> ELSE <<>>)))

(***************************************************************************)
(* The process                                                             *)
(***************************************************************************)
VARIABLES
  pc,        \* position of the running process, or idle / done / failed
  command,   \* the command of the current invocation
  argv,      \* its parsed flags
  env,       \* process.env
  cwd,       \* process.cwd()
  options,   \* CreateOptions, the result of promptUser
  idx,       \* position in the loop over apps, then packages
  dirs,      \* the directories on disk
  files,     \* the files on disk
  warnings,  \* the files a warning was logged for
  asked,     \* the prompts shown by the current invocation
  exitCode,  \* "none" while running
  adds,      \* add invocations so far
  flag,      \* add: the flag of the invocation
  parsed,    \* add: the name and template parsed from the flag
  info,      \* add: monorepoInfo, the result of validateMonorepoStructure
  adding,    \* add: the app or package the prompts have chosen
  pInput,    \* name parsing: the input
  pKind,     \* name parsing: apps or packages
  pAdd,      \* name parsing: result of parseNameAndTemplate
  pCreate,   \* name parsing: result of the create resolver
  tpl,       \* template copy: the files of the template directory
  repl,      \* template copy: the replacements
  written    \* template copy: the files the replacement step wrote

vars == <<pc, command, argv, env, cwd, options, idx, dirs, files, warnings, asked,
          exitCode, adds, flag, parsed, info, adding, pInput, pKind, pAdd, pCreate,
          tpl, repl, written>>

procVars == <<pc, command, argv, env, cwd, options, idx, dirs, files, warnings, asked,
              exitCode, adds, flag, parsed, info, adding>>

addVars == <<flag, parsed, info, adding>>

parseVars == <<pInput, pKind, pAdd, pCreate>>

templateVars == <<tpl, repl, written>>

\* Inputs of the invocations
Proj == S("proj")
Work == <<S("work")>>

\* Values of APPS, each already split at the commas
MatrixApps ==
  << <<"web", "[", "react-vite", "]">>, <<"mobile", "[", "react-native-expo", "]">>,
     <<"api", "[", "express", "]">>, <<"admin", "[", "nextjs", "]">>,
     <<"cms", "[", "remix", "]">>, <<"gateway", "[", "hono", "]">>,
     <<"service", "[", "nestjs", "]">>, <<"desktop", "[", "react-webpack", "]">>,
     <<"native", "[", "react-native-bare", "]">>, <<"fullstack", "[", "nextjs-solito", "]">> >>

AppLists ==
  { <<>>,
    << <<"web", "[", "react-vite", "]">>, <<"api", "[", "express", "]">> >>,
    << <<"mobile", "[", "react-native-expo", "]">>, <<"gateway", "[", "hono", "]">> >>,
    << <<"[", "hono", "]">> >>,
    << <<"x", "[", "constructor", "]">> >>,
    << <<"ui", "[", "react-vite", "]">>, <<"ui", "[", "express", "]">> >>,
    MatrixApps }

\* Values of PACKAGES, each already split at the commas
MatrixPackages ==
  << <<"ui">>, <<"ui-native">>, <<"utils">>, <<"schemas">>, <<"hooks">>, <<"blank1">>, <<"blank2">> >>

PackageLists ==
  { <<>>,
    << <<"ui">> >>,
    << <<"myui", "[", "ui", "]">> >>,
    << <<"ui", "[", "ui", "]">>, <<"hooks", "[", "hooks", "]">>, <<"db", "[", "db", "]">> >>,
    << <<"ui-native", "[", "ui-native", "]">>, <<"utils", "[", "utils", "]">>,
       <<"schemas", "[", "schemas", "]">>, <<"ui", "[", "ui", "]">> >>,
    MatrixPackages }

LintingValues == {"undefined", "biome", "eslint-prettier", "eslint"}

\* The ways an ORM is asked for: the --orm flag, the ORM variable exported by
\* tests/test-complete.sh, ORM_TYPE and DATABASE as tests/test-runner.sh sets them.
OrmSettings ==
  { [flag |-> "undefined", ORM |-> "undefined", ORM_TYPE |-> "undefined", DATABASE |-> "undefined"],
    [flag |-> "drizzle",   ORM |-> "undefined", ORM_TYPE |-> "undefined", DATABASE |-> "undefined"],
    [flag |-> "undefined", ORM |-> "prisma",    ORM_TYPE |-> "undefined", DATABASE |-> "undefined"],
    [flag |-> "undefined", ORM |-> "undefined", ORM_TYPE |-> "prisma",    DATABASE |-> "postgresql"],
    [flag |-> "undefined", ORM |-> "undefined", ORM_TYPE |-> "drizzle",   DATABASE |-> "postgresql"],
    [flag |-> "undefined", ORM |-> "undefined", ORM_TYPE |-> "none",      DATABASE |-> "postgresql"],
    [flag |-> "undefined", ORM |-> "undefined", ORM_TYPE |-> "drizzle",   DATABASE |-> "undefined"] }

NoFlag == [name |-> "none", isString |-> FALSE, value |-> <<>>]
NoParsed == [error |-> FALSE, name |-> <<>>, template |-> Undefined]
NoInfo ==
  [valid |-> FALSE, rootPath |-> <<>>, packageJson |-> EmptyFile, hasAppsDir |-> FALSE,
   hasPackagesDir |-> FALSE, apps |-> {}, packages |-> {}, hasOrmSetup |-> FALSE]

NoOptions == [appName |-> <<>>, linting |-> "undefined", apps |-> <<>>, packages |-> <<>>, orm |-> NoOrm]
NoArgv == [orm |-> "undefined", yes |-> FALSE]
NoEnv ==
  [NON_INTERACTIVE |-> "undefined", LINTING |-> "undefined", APPS |-> <<>>, PACKAGES |-> <<>>,
   ORM |-> "undefined", ORM_TYPE |-> "undefined", DATABASE |-> "undefined"]

ProcInit ==
  /\ pc = "idle" /\ command = "none" /\ argv = NoArgv /\ env = NoEnv /\ cwd = Work
  /\ options = NoOptions /\ idx = 0
  /\ dirs = Prefixes(Work) /\ files = <<>>
  /\ warnings = {} /\ asked = {} /\ exitCode = "none" /\ adds = 0
  /\ flag = NoFlag /\ parsed = NoParsed /\ info = NoInfo /\ adding = NoSpec

NoAddParse == [done |-> FALSE, error |-> FALSE, name |-> <<>>, template |-> Undefined]
NoCreateParse == [done |-> FALSE, error |-> "none", spec |-> NoSpec]

ParseIdle == pInput = <<>> /\ pKind = "apps" /\ pAdd = NoAddParse /\ pCreate = NoCreateParse

TemplateIdle == tpl = {} /\ repl = NoReplacements /\ written = {}

Init == ProcInit /\ ParseIdle /\ TemplateIdle

Cur == [ok |-> TRUE, dirs |-> dirs, files |-> files, warn |-> warnings]

\* A variant of Step that removes the project directory when the operation
\* has thrown (a rollback the program does not have).
StepWithCleanup(from, r, to) ==
  LET root == cwd \o <<options.appName>>
      Kept(p) == ~(Len(p) >= Len(root) /\ SubSeq(p, 1, Len(root)) = root)
  IN /\ pc = from
     /\ dirs' = IF r.ok THEN r.dirs ELSE {d \in r.dirs : Kept(d)}
     /\ files' = IF r.ok THEN r.files
                 ELSE [f \in {p \in DOMAIN r.files : Kept(p)} |-> r.files[f]]
     /\ warnings' = r.warn
     /\ pc' = IF r.ok THEN to ELSE "failed"
     /\ exitCode' = IF r.ok THEN exitCode ELSE 1

\* The process moves from pc = from to pc = to by an operation whose result
\* is the file system r; an error thrown propagates to main, which exits 1.
Step(from, r, to) ==
  /\ pc = from
  /\ dirs' = r.dirs /\ files' = r.files /\ warnings' = r.warn
  /\ pc' = IF r.ok THEN to ELSE "failed"
  /\ exitCode' = IF r.ok THEN exitCode ELSE 1

(***************************************************************************)
(* index.ts main and handleCreateCommand, create-command.ts promptUser     *)
(***************************************************************************)
\* The flags of create set environment variables.
handleCreateCommand(e, flags) ==
  [e EXCEPT !.ORM = IF flags.orm # "undefined" THEN flags.orm ELSE @,
            !.NON_INTERACTIVE = IF flags.yes THEN "true" ELSE @]

\* main dispatches create in an empty working directory; the prompts of the
\* interactive mode are not part of this model, every invocation is
\* non-interactive through --yes or through NON_INTERACTIVE.
MainCreate ==
  /\ pc = "idle"
  /\ \E a \in AppLists, p \in PackageLists, l \in LintingValues, o \in OrmSettings, y \in BOOLEAN :
       LET e == [NON_INTERACTIVE |-> IF y THEN "undefined" ELSE "true", LINTING |-> l,
                 APPS |-> a, PACKAGES |-> p, ORM |-> o.ORM, ORM_TYPE |-> o.ORM_TYPE,
                 DATABASE |-> o.DATABASE]
           flags == [orm |-> o.flag, yes |-> y]
       IN /\ env' = handleCreateCommand(e, flags)
          /\ argv' = flags
  /\ command' = "create" /\ cwd' = Work /\ pc' = "promptUser"
  /\ options' = NoOptions /\ idx' = 0 /\ asked' = {} /\ exitCode' = "none"
  /\ UNCHANGED <<dirs, files, warnings, adds, addVars, parseVars, templateVars>>

isLintingType(value) == value \in {"undefined", "biome", "eslint-prettier", "none"}
isOrmType(value) == value \in {"undefined", "prisma", "drizzle", "none"}
isDatabaseType(value) == value \in {"undefined", "postgresql", "mysql", "sqlite"}

\* (process.env.APPS || "web,api").split(",").map((app) => app.trim())
appInputs(e) ==
  IF e.APPS = <<>> THEN <<S("web"), S("api")>>
  ELSE [i \in 1..Len(e.APPS) |-> Trim(e.APPS[i])]

packageInputs(e) == [i \in 1..Len(e.PACKAGES) |-> Trim(e.PACKAGES[i])]

\* The non-interactive branch of promptUser: the options, or the error thrown
promptUser(e) ==
  LET apps == [i \in 1..Len(appInputs(e)) |-> ResolveInput(appInputs(e)[i], "apps")]
      packages == [i \in 1..Len(packageInputs(e)) |-> ResolveInput(packageInputs(e)[i], "packages")]
  IN IF ~isLintingType(e.LINTING) THEN [error |-> "Invalid LINTING value", options |-> NoOptions]
     ELSE IF ~isOrmType(e.ORM_TYPE) THEN [error |-> "Invalid ORM_TYPE value", options |-> NoOptions]
     ELSE IF ~isDatabaseType(e.DATABASE) THEN [error |-> "Invalid DATABASE value", options |-> NoOptions]
     ELSE IF \E i \in 1..Len(apps) : apps[i].error # "none"
          THEN [error |-> apps[CHOOSE i \in 1..Len(apps) : apps[i].error # "none"
                             /\ \A j \in 1..(i - 1) : apps[j].error = "none"].error,
                options |-> NoOptions]
     ELSE IF \E i \in 1..Len(packages) : packages[i].error # "none"
          THEN [error |-> packages[CHOOSE i \in 1..Len(packages) : packages[i].error # "none"
                             /\ \A j \in 1..(i - 1) : packages[j].error = "none"].error,
                options |-> NoOptions]
     ELSE [error |-> "none",
           options |->
             [appName |-> Proj,
              linting |-> IF e.LINTING = "undefined" THEN "biome" ELSE e.LINTING,
              apps |-> [i \in 1..Len(apps) |-> apps[i].spec],
              packages |-> [i \in 1..Len(packages) |-> packages[i].spec],
              orm |-> IF e.ORM_TYPE # "undefined" /\ e.DATABASE # "undefined"
                      THEN createOrmConfig(e.ORM_TYPE, e.DATABASE) ELSE NoOrm]]

PromptUser ==
  /\ pc = "promptUser"
  /\ LET r == promptUser(env) IN
       /\ options' = r.options
       /\ pc' = IF r.error = "none" THEN "mkdirs" ELSE "failed"
       /\ exitCode' = IF r.error = "none" THEN exitCode ELSE 1
  /\ UNCHANGED <<command, argv, env, cwd, idx, dirs, files, warnings, asked, adds, addVars, parseVars, templateVars>>

(***************************************************************************)
(* create-command.ts createMonorepo, one action for each awaited step      *)
(***************************************************************************)
Root == cwd \o <<options.appName>>

Frame == UNCHANGED <<command, argv, env, cwd, options, asked, adds, addVars, parseVars, templateVars>>

CreateDirs ==
  /\ Step("mkdirs",
          LET st1 == mkdir(mkdir(Cur, Root), Root \o <<S("apps")>>)
          IN IF Len(options.packages) > 0 THEN mkdir(st1, Root \o <<S("packages")>>) ELSE st1,
          "rootPackageJson")
  /\ UNCHANGED idx /\ Frame

CreateRootPackageJson ==
  /\ Step("rootPackageJson",
          createRootPackageJson(Cur, Root, options.appName, options.linting, options.packages, options.orm),
          "rootTsConfig")
  /\ UNCHANGED idx /\ Frame

CreateRootTsConfig ==
  /\ Step("rootTsConfig", createRootTsConfig(Cur, Root, options.apps, options.packages), "lintingConfig")
  /\ UNCHANGED idx /\ Frame

CreateLintingConfig ==
  /\ Step("lintingConfig", createLintingConfig(Cur, Root, options.linting, options.apps), "ormSetup")
  /\ UNCHANGED idx /\ Frame

CreateOrmSetup ==
  /\ Step("ormSetup",
          IF OrmConfigured(options.orm)
          THEN addDockerCompose(createOrmSetup(Cur, Root, options.orm), Root, options.orm)
          ELSE Cur,
          "gitignore")
  /\ UNCHANGED idx /\ Frame

CreateGitignore ==
  /\ Step("gitignore", createGitignore(Cur, Root, options.apps), "apps")
  /\ idx' = 1 /\ Frame

\* for (const app of apps) await createApp(appName, app, packages, orm)
CreateApp ==
  /\ idx <= Len(options.apps)
  /\ Step("apps",
          createAppWithProcessing(Cur, cwd, options.appName, options.apps[idx], options.packages, options.orm),
          "apps")
  /\ idx' = idx + 1 /\ Frame

AppsDone ==
  /\ pc = "apps" /\ idx > Len(options.apps)
  /\ pc' = "packages" /\ idx' = 1
  /\ UNCHANGED <<dirs, files, warnings, exitCode>> /\ Frame

\* for (const pkg of packages) await createPackage(appName, pkg)
CreatePackage ==
  /\ idx <= Len(options.packages)
  /\ Step("packages", createPackageWithProcessing(Cur, cwd, options.appName, options.packages[idx]), "packages")
  /\ idx' = idx + 1 /\ Frame

\* create() returns, the process exits with code 0
PackagesDone ==
  /\ pc = "packages" /\ idx > Len(options.packages)
  /\ pc' = "done" /\ exitCode' = 0
  /\ UNCHANGED <<idx, dirs, files, warnings>> /\ Frame

Create ==
  \/ MainCreate \/ PromptUser \/ CreateDirs \/ CreateRootPackageJson \/ CreateRootTsConfig
  \/ CreateLintingConfig \/ CreateOrmSetup \/ CreateGitignore \/ CreateApp \/ AppsDone
  \/ CreatePackage \/ PackagesDone

(***************************************************************************)
(* index.ts handleAddCommand and add-command.ts: add --app, add --package  *)
(***************************************************************************)
\* What follows --app or --package on the command line; isString = FALSE is
\* the flag without a value, which parseFlags sets to true.
AddFlagValues ==
  { [isString |-> FALSE, value |-> <<>>],
    [isString |-> TRUE, value |-> <<"myapi", "[", "express", "]">>],
    [isString |-> TRUE, value |-> <<"myutils", "[", "utils", "]">>],
    [isString |-> TRUE, value |-> <<"[", "hooks", "]">>],
    [isString |-> TRUE, value |-> <<"[", " ", "]">>] }

\* The answers typed at a name prompt
NameAnswers == {S("admin"), S("myapi"), S("myutils")}

\* The flags of an add invocation: --app or --package with what follows it,
\* --orm, or no flag (NoFlag), the interactive mode.
AddFlags ==
  {[name |-> k, isString |-> v.isString, value |-> v.value] : k \in {"app", "package"}, v \in AddFlagValues}
    \cup {[name |-> "orm", isString |-> FALSE, value |-> <<>>], NoFlag}

\* The directories add is run in: the root of the created project, the
\* directory the project was created in, the directory of an app.
AddDirs == {Work \o <<Proj>>, Work, Work \o <<Proj, S("apps"), S("web")>>}

\* The next invocation is add, with the environment of a new shell.
MainAdd ==
  /\ pc \in {"done", "failed"} /\ adds < MaxAdds
  /\ \E f \in AddFlags : flag' = f
  /\ \E d \in AddDirs \cap dirs : cwd' = d
  /\ command' = "add" /\ pc' = "handleAdd"
  /\ env' = NoEnv /\ argv' = NoArgv /\ options' = NoOptions /\ idx' = 0
  /\ asked' = {} /\ exitCode' = "none" /\ adds' = adds + 1
  /\ parsed' = NoParsed /\ info' = NoInfo /\ adding' = NoSpec
  /\ UNCHANGED <<dirs, files, warnings, parseVars, templateVars>>

AddFrame == UNCHANGED <<command, argv, env, cwd, options, idx, adds, flag, parseVars, templateVars>>

\* const input = typeof flags.app === "string" ? flags.app : ""; --orm and
\* the interactive mode parse nothing
HandleAddCommand ==
  /\ pc = "handleAdd"
  /\ parsed' = IF flag.name \in {"app", "package"}
               THEN parseNameAndTemplate(IF flag.isString THEN flag.value ELSE <<>>)
               ELSE NoParsed
  /\ pc' = IF parsed'.error THEN "failed" ELSE "validate"
  /\ exitCode' = IF parsed'.error THEN 1 ELSE exitCode
  /\ UNCHANGED <<dirs, files, warnings, asked, info, adding>> /\ AddFrame

\* A package.json without workspaces has workspaces <<>> here; every root
\* package.json written by create has at least apps/*.
Children(st, dir) == {q[Len(dir) + 1] : q \in {d \in st.dirs : Len(d) = Len(dir) + 1 /\ SubSeq(d, 1, Len(dir)) = dir}}

hasExistingOrmSetup(st, rootPath) ==
  \/ access(st, rootPath \o <<S("drizzle.config.ts")>>)
  \/ access(st, rootPath \o <<S("prisma"), S("schema.prisma")>>)
  \/ access(st, rootPath \o <<S("src"), S("lib"), S("db.ts")>>)

validateMonorepoStructure(st, rootPath) ==
  LET packageJsonPath == rootPath \o <<S("package.json")>> IN
  IF ~IsFile(st, packageJsonPath) THEN NoInfo
  ELSE IF st.files[packageJsonPath].workspaces = <<>> THEN NoInfo
  ELSE [valid |-> TRUE,
        rootPath |-> rootPath,
        packageJson |-> st.files[packageJsonPath],
        hasAppsDir |-> access(st, rootPath \o <<S("apps")>>),
        hasPackagesDir |-> access(st, rootPath \o <<S("packages")>>),
        apps |-> Children(st, rootPath \o <<S("apps")>>),
        packages |-> Children(st, rootPath \o <<S("packages")>>),
        hasOrmSetup |-> hasExistingOrmSetup(st, rootPath)]

\* A variant of Validate that creates the apps directory before it looks at
\* package.json.
ValidateAfterMkdir ==
  /\ pc = "validate"
  /\ dirs' = mkdir(Cur, cwd \o <<S("apps")>>).dirs
  /\ info' = validateMonorepoStructure(Cur, cwd)
  /\ pc' = IF ~info'.valid THEN "failed"
           ELSE CASE flag.name = "app" -> "askAppName"
                  [] flag.name = "package" -> "askPackageType"
                  [] flag.name = "orm" -> "promptOrmSetup"
                  [] OTHER -> "promptAddOptions"
  /\ exitCode' = IF info'.valid THEN exitCode ELSE 1
  /\ UNCHANGED <<files, warnings, asked, parsed, adding>> /\ AddFrame

\* addSingleApp, addSinglePackage, addOrmSetup and addToMonorepo up to the
\* first prompt; addSingleApp and addSinglePackage do not take the name and
\* template handleAddCommand passes.
Validate ==
  /\ pc = "validate"
  /\ info' = validateMonorepoStructure(Cur, cwd)
  /\ pc' = IF ~info'.valid THEN "failed"
           ELSE CASE flag.name = "app" -> "askAppName"
                  [] flag.name = "package" -> "askPackageType"
                  [] flag.name = "orm" -> "promptOrmSetup"
                  [] OTHER -> "promptAddOptions"
  /\ exitCode' = IF info'.valid THEN exitCode ELSE 1
  /\ UNCHANGED <<dirs, files, warnings, asked, parsed, adding>> /\ AddFrame

\* A prompt: the question is shown, the answer moves the process on; a
\* cancelled prompt ends it with process.exit(0).
Answer(question, to, chosen) ==
  /\ asked' = asked \cup {question}
  /\ pc' = to
  /\ adding' = chosen
  /\ exitCode' = IF to = "done" THEN 0 ELSE exitCode
  /\ UNCHANGED <<dirs, files, warnings, parsed, info>> /\ AddFrame

AskAppName ==
  /\ pc = "askAppName"
  /\ \/ Answer("Enter the app name:", "done", adding)
     \/ \E a \in NameAnswers :
          Answer("Enter the app name:", "askCategory", [NoSpec EXCEPT !.name = Trim(a)])

getTemplateChoices(type) ==
  {[category |-> "blank", template |-> "blank"]}
    \cup {[category |-> c, template |-> "null"] :
            c \in {k \in DOMAIN TEMPLATES_CONFIG : k # "blank" /\ ~Skipped(k, type)}}

getCategoryTemplateChoices(categoryKey) == TEMPLATES_CONFIG[categoryKey]

\* promptAppTemplate: the category prompt of the loop
AskCategory ==
  /\ pc = "askCategory"
  /\ \/ Answer("Choose a template category", "done", adding)
     \/ \E c \in getTemplateChoices("apps") :
          IF c.template = "null"
          THEN Answer("Choose a template category", "askTemplate", [adding EXCEPT !.category = c.category])
          ELSE Answer("Choose a template category", "addApp",
                      [adding EXCEPT !.category = c.category, !.template = S(c.template)])

\* promptAppTemplate: the template prompt of the loop, with Go Back
AskTemplate ==
  /\ pc = "askTemplate"
  /\ \/ Answer("Choose a template", "done", adding)
     \/ Answer("Choose a template", "askCategory", adding)
     \/ \E t \in getCategoryTemplateChoices(adding.category) :
          Answer("Choose a template", "addApp", [adding EXCEPT !.template = S(t)])

AddToSet(seq, x) == IF \E i \in 1..Len(seq) : seq[i] = x THEN seq ELSE Append(seq, x)

getProjectNameFromPath(path) == IF path = <<>> THEN S("monorepo") ELSE path[Len(path)]

updatePackageJsonForSingleApp(st, monorepoInfo) ==
  LET w1 == AddToSet(monorepoInfo.packageJson.workspaces, S("apps/*"))
      w2 == IF monorepoInfo.hasPackagesDir THEN AddToSet(w1, S("packages/*")) ELSE w1
  IN writeJsonFile(st, monorepoInfo.rootPath \o <<S("package.json")>>,
                   [monorepoInfo.packageJson EXCEPT !.workspaces = w2])

updatePackageJsonForSinglePackage(st, monorepoInfo) ==
  LET w1 == IF monorepoInfo.hasAppsDir
            THEN AddToSet(monorepoInfo.packageJson.workspaces, S("apps/*"))
            ELSE monorepoInfo.packageJson.workspaces
      w2 == AddToSet(w1, S("packages/*"))
  IN writeJsonFile(st, monorepoInfo.rootPath \o <<S("package.json")>>,
                   [monorepoInfo.packageJson EXCEPT !.workspaces = w2])

\* newRefs: the paths of the new packages, then of the new apps
updateTsConfigReferences(st, monorepoInfo, newRefs) ==
  LET tsConfigPath == monorepoInfo.rootPath \o <<S("tsconfig.json")>> IN
  IF ~st.ok THEN st
  ELSE IF IsFile(st, tsConfigPath)
       THEN writeJsonFile(st, tsConfigPath, [st.files[tsConfigPath] EXCEPT !.refs = @ \o newRefs])
       ELSE writeJsonFile(st, tsConfigPath, [EmptyFile EXCEPT !.refs = newRefs])

\* add-command.ts createApp: the shared pipeline is given the project name,
\* the last segment of rootPath, and resolves it in the working directory.
\* allPackages is an array and so always taken in allPackages || ...
createApp(st, workingDir, rootPath, app, existingPackages, orm, allPackages) ==
  createAppWithProcessing(st, workingDir, getProjectNameFromPath(rootPath), app, allPackages, orm)

createPackage(st, workingDir, rootPath, pkg) ==
  createPackageWithProcessing(st, workingDir, getProjectNameFromPath(rootPath), pkg)

addSingleAppToMonorepo(st, workingDir, monorepoInfo, appToAdd) ==
  LET rootPath == monorepoInfo.rootPath
      st1 == IF ~monorepoInfo.hasAppsDir THEN mkdir(st, rootPath \o <<S("apps")>>) ELSE st
      st2 == updatePackageJsonForSingleApp(st1, monorepoInfo)
      st3 == createApp(st2, workingDir, rootPath, appToAdd, monorepoInfo.packages, NoOrm, <<>>)
  IN updateTsConfigReferences(st3, monorepoInfo, << <<"apps", "/">> \o appToAdd.name >>)

addSinglePackageToMonorepo(st, workingDir, monorepoInfo, packageToAdd) ==
  LET rootPath == monorepoInfo.rootPath
      st1 == IF ~monorepoInfo.hasPackagesDir THEN mkdir(st, rootPath \o <<S("packages")>>) ELSE st
      st2 == updatePackageJsonForSinglePackage(st1, monorepoInfo)
      st3 == createPackage(st2, workingDir, rootPath, packageToAdd)
  IN updateTsConfigReferences(st3, monorepoInfo, << <<"packages", "/">> \o packageToAdd.name >>)

\* The operation r ends the add invocation: exit code 0, or 1 after an error
Finish(from, r) ==
  /\ pc = from
  /\ dirs' = r.dirs /\ files' = r.files /\ warnings' = r.warn
  /\ pc' = IF r.ok THEN "done" ELSE "failed"
  /\ exitCode' = IF r.ok THEN 0 ELSE 1
  /\ UNCHANGED <<asked, parsed, info, adding>> /\ AddFrame

AddSingleApp == Finish("addApp", addSingleAppToMonorepo(Cur, cwd, info, adding))

AskPackageType ==
  /\ pc = "askPackageType"
  /\ \/ Answer("What type of package would you like to add?", "done", adding)
     \/ Answer("What type of package would you like to add?", "askPackageTemplate", adding)
     \/ Answer("What type of package would you like to add?", "askPackageName", adding)

getPackageTemplateChoices == TEMPLATES_CONFIG.packages

AskPackageTemplate ==
  /\ pc = "askPackageTemplate"
  /\ \/ Answer("Select a package template:", "done", adding)
     \/ \E t \in getPackageTemplateChoices :
          Answer("Select a package template:", "addPackage",
                 [name |-> S(t), template |-> S(t), category |-> "packages"])

AskPackageName ==
  /\ pc = "askPackageName"
  /\ \/ Answer("Enter the package name:", "done", adding)
     \/ \E a \in NameAnswers :
          Answer("Enter the package name:", "addPackage",
                 [name |-> Trim(a), template |-> S("blank"), category |-> "blank"])

AddSinglePackage == Finish("addPackage", addSinglePackageToMonorepo(Cur, cwd, info, adding))

(***************************************************************************)
(* add-command.ts: add --orm and the interactive add                       *)
(***************************************************************************)
\* The prompts of an add invocation that choose its options
OptionsFrame ==
  UNCHANGED <<command, argv, env, cwd, idx, adds, flag, parseVars, templateVars, dirs, files, warnings,
              exitCode, parsed, info, adding>>

\* addOrmSetup after the validation: the confirmation when an ORM setup was
\* detected, then promptOrmSetup
PromptOrmSetup ==
  /\ pc = "promptOrmSetup"
  /\ \E continue \in BOOLEAN, ormType \in {"drizzle", "prisma"},
        database \in {"postgresql", "sqlite", "mysql"} :
       IF info.hasOrmSetup /\ ~continue
       THEN Answer("Do you want to continue and potentially overwrite existing ORM setup?",
                   "done", adding)
       ELSE /\ asked' = asked
                  \cup (IF info.hasOrmSetup
                        THEN {"Do you want to continue and potentially overwrite existing ORM setup?"}
                        ELSE {})
                  \cup {"Choose a database ORM:", "Choose a database:"}
            /\ options' = [NoOptions EXCEPT !.orm = createOrmConfig(ormType, database)]
            /\ pc' = "addOrm"
            /\ OptionsFrame

updatePackageJsonWithOrmDeps(st, monorepoInfo, ormConfig) ==
  writeJsonFile(st, monorepoInfo.rootPath \o <<S("package.json")>>,
                [monorepoInfo.packageJson EXCEPT
                   !.deps = @ \cup getOrmDependencies(ormConfig),
                   !.scripts = @ \cup getOrmScripts(ormConfig)])

\* add-command.ts has its own createOrmSetup, which writes the ORM files in
\* the root of the monorepo.
createDrizzleSetupInAdd(st, rootPath, database) ==
  LET lib == rootPath \o <<S("src"), S("lib")>>
      st1 == mkdir(st, lib)
      st2 == writeFile(st1, lib \o <<S("db.ts")>>, Text(<<<<"drizzle client ", database>>>>))
      st3 == writeFile(st2, lib \o <<S("schema.ts")>>, Text(<<<<"drizzle schema ", database>>>>))
      st4 == writeFile(st3, rootPath \o <<S("drizzle.config.ts")>>, Text(<<<<"drizzle config ", database>>>>))
  IN writeFile(st4, rootPath \o <<S(".env.example")>>, Text(<<<<"DATABASE_URL drizzle ", database>>>>))

createPrismaSetupInAdd(st, rootPath, database) ==
  LET lib == rootPath \o <<S("src"), S("lib")>>
      st1 == mkdir(st, lib)
      st2 == writeFile(st1, lib \o <<S("db.ts")>>, Text(<<S("prisma client")>>))
      st3 == mkdir(st2, rootPath \o <<S("prisma")>>)
      st4 == writeFile(st3, rootPath \o <<S("prisma"), S("schema.prisma")>>, Text(<<<<"prisma schema ", database>>>>))
      st5 == writeFile(st4, lib \o <<S("seed.ts")>>, Text(<<S("prisma seed")>>))
  IN writeFile(st5, rootPath \o <<S(".env.example")>>, Text(<<<<"DATABASE_URL prisma ", database>>>>))

createOrmSetupInAdd(st, rootPath, orm) ==
  IF orm.type = "drizzle" THEN createDrizzleSetupInAdd(st, rootPath, orm.database)
  ELSE IF orm.type = "prisma" THEN createPrismaSetupInAdd(st, rootPath, orm.database)
  ELSE st

addOrmToMonorepo(st, monorepoInfo, ormConfig) ==
  addDockerCompose(
    createOrmSetupInAdd(updatePackageJsonWithOrmDeps(st, monorepoInfo, ormConfig),
                        monorepoInfo.rootPath, ormConfig),
    monorepoInfo.rootPath, ormConfig)

AddOrm == Finish("addOrm", addOrmToMonorepo(Cur, info, options.orm))

\* The answers to promptAddOptions: the apps with their templates, the
\* template packages and blank packages, the ORM when the menu offers it
AddAppChoices ==
  { <<>>,
    << [name |-> S("admin"), template |-> S("express"), category |-> "backend"] >>,
    << [name |-> S("web"), template |-> S("blank"), category |-> "blank"] >> }

AddPackageChoices ==
  { <<>>,
    << [name |-> S("utils"), template |-> S("utils"), category |-> "packages"] >>,
    << [name |-> S("db"), template |-> S("db"), category |-> "packages"],
       [name |-> S("myutils"), template |-> S("blank"), category |-> "blank"] >> }

AddOptionChoices(monorepoInfo) ==
  {[NoOptions EXCEPT !.apps = a, !.packages = p, !.orm = o] :
     a \in AddAppChoices, p \in AddPackageChoices,
     o \in {NoOrm} \cup (IF monorepoInfo.hasOrmSetup THEN {}
                          ELSE {createOrmConfig("drizzle", "postgresql")})}

\* promptAddOptions; nothing selected ends the process with exit code 0
PromptAddOptions ==
  /\ pc = "promptAddOptions"
  /\ \/ Answer("What would you like to add?", "done", adding)
     \/ \E o \in AddOptionChoices(info) :
          /\ asked' = asked \cup {"What would you like to add?"}
                         \cup (IF info.hasOrmSetup THEN {} ELSE {"ORM Setup"})
          /\ options' = o
          /\ pc' = "addToExisting"
          /\ OptionsFrame

updatePackageJsonWorkspaces(st, monorepoInfo, hasNewApps, hasNewPackages, ormSetup) ==
  LET w0 == monorepoInfo.packageJson.workspaces
      w1 == IF hasNewApps \/ monorepoInfo.hasAppsDir THEN AddToSet(w0, S("apps/*")) ELSE w0
      w2 == IF hasNewPackages \/ monorepoInfo.hasPackagesDir THEN AddToSet(w1, S("packages/*")) ELSE w1
  IN writeJsonFile(st, monorepoInfo.rootPath \o <<S("package.json")>>,
       [monorepoInfo.packageJson EXCEPT
          !.workspaces = w2,
          !.deps = IF OrmConfigured(ormSetup) THEN @ \cup getOrmDependencies(ormSetup) ELSE @,
          !.scripts = IF OrmConfigured(ormSetup) THEN @ \cup getOrmScripts(ormSetup) ELSE @])

\* for (const app of addApps) await createApp(...), from the i-th app on
RECURSIVE AddApps(_, _, _, _, _)
AddApps(st, i, workingDir, monorepoInfo, o) ==
  IF i > Len(o.apps) THEN st
  ELSE AddApps(createApp(st, workingDir, monorepoInfo.rootPath, o.apps[i],
                         monorepoInfo.packages, o.orm, o.packages),
               i + 1, workingDir, monorepoInfo, o)

\* for (const pkg of addPackages) await createPackage(rootPath, pkg)
RECURSIVE AddPackages(_, _, _, _, _)
AddPackages(st, i, workingDir, monorepoInfo, o) ==
  IF i > Len(o.packages) THEN st
  ELSE AddPackages(createPackage(st, workingDir, monorepoInfo.rootPath, o.packages[i]),
                   i + 1, workingDir, monorepoInfo, o)

addToExistingMonorepo(st, workingDir, monorepoInfo, o) ==
  LET rootPath == monorepoInfo.rootPath
      st1 == IF Len(o.apps) > 0 /\ ~monorepoInfo.hasAppsDir
             THEN mkdir(st, rootPath \o <<S("apps")>>) ELSE st
      st2 == IF Len(o.packages) > 0 /\ ~monorepoInfo.hasPackagesDir
             THEN mkdir(st1, rootPath \o <<S("packages")>>) ELSE st1
      st3 == updatePackageJsonWorkspaces(st2, monorepoInfo, Len(o.apps) > 0, Len(o.packages) > 0, o.orm)
      st4 == AddApps(st3, 1, workingDir, monorepoInfo, o)
      st5 == AddPackages(st4, 1, workingDir, monorepoInfo, o)
      st6 == IF OrmConfigured(o.orm)
             THEN addDockerCompose(createOrmSetupInAdd(st5, rootPath, o.orm), rootPath, o.orm)
             ELSE st5
  IN updateTsConfigReferences(st6, monorepoInfo,
       [i \in 1..Len(o.packages) |-> <<"packages", "/">> \o o.packages[i].name]
         \o [i \in 1..Len(o.apps) |-> <<"apps", "/">> \o o.apps[i].name])

AddToExistingMonorepo == Finish("addToExisting", addToExistingMonorepo(Cur, cwd, info, options))

Add ==
  \/ MainAdd \/ HandleAddCommand \/ Validate \/ AskAppName \/ AskCategory \/ AskTemplate
  \/ AddSingleApp \/ AskPackageType \/ AskPackageTemplate \/ AskPackageName \/ AddSinglePackage
  \/ PromptOrmSetup \/ AddOrm \/ PromptAddOptions \/ AddToExistingMonorepo

Next == Create \/ Add

Spec == Init /\ [][Next]_vars

(***************************************************************************)
(* Name parsing on its own: every input up to MaxLen tokens is given to    *)
(* parseNameAndTemplate, as handleAddCommand does with the value of --app  *)
(* or --package, and to the resolver of promptUser, as an entry of APPS or *)
(* of PACKAGES.                                                            *)
(***************************************************************************)
ParseTok == {"web", "express", "hooks", "constructor", " ", "[", "]"}

ParseInputs == UNION {[1..k -> ParseTok] : k \in 0..MaxLen}

InitParse ==
  /\ ProcInit
  /\ pInput \in ParseInputs /\ pKind \in {"apps", "packages"}
  /\ pAdd = NoAddParse /\ pCreate = NoCreateParse
  /\ TemplateIdle

ParseFlagValue ==
  /\ ~pAdd.done
  /\ pAdd' = LET r == parseNameAndTemplate(pInput)
             IN [done |-> TRUE, error |-> r.error, name |-> r.name, template |-> r.template]
  /\ UNCHANGED <<procVars, templateVars, pInput, pKind, pCreate>>

\* appInputs.map((app) => app.trim()) and then the body of apps.map
ResolveEntry ==
  /\ ~pCreate.done
  /\ pCreate' = LET r == ResolveInput(Trim(pInput), pKind)
                IN [done |-> TRUE, error |-> r.error, spec |-> r.spec]
  /\ UNCHANGED <<procVars, templateVars, pInput, pKind, pAdd>>

NextParse == ParseFlagValue \/ ResolveEntry

SpecParse == InitParse /\ [][NextParse]_vars

(***************************************************************************)
(* Template copy on its own: copyTemplateFiles, as createAppWithProcessing *)
(* calls it after mkdir(appPath), for every template directory made of the *)
(* files below and for the replacements createAppWithProcessing builds     *)
(* from the project name and the app name.                                 *)
(***************************************************************************)
\* appPath
TemplateTarget == Work \o <<Proj, S("apps"), S("mobile")>>

TemplateFiles ==
  { [rel |-> <<S("package.json")>>, content |-> Text(<< <<"name: ", "{{name}}">> >>)],
    [rel |-> <<S("app.json")>>,
     content |-> Text(<< <<"name: ", "{{name}}">>, <<"slug: ", "{{appName}}">> >>)],
    [rel |-> <<S("src"), S("index.ts")>>, content |-> Text(<<S("export {};")>>)],
    [rel |-> <<S("src"), <<"dist", "ance.ts">> >>, content |-> Text(<<S("export const distance = 0;")>>)],
    [rel |-> <<S("node_modules"), S("x"), S("index.js")>>, content |-> Text(<<S("module.exports = {};")>>)],
    [rel |-> <<S("dist"), S("index.js")>>, content |-> Text(<< <<"// ", "{{name}}">> >>)],
    [rel |-> <<S("assets"), S("logo.png")>>, content |-> Text(<< <<"{{name}}">> >>)] }

\* { appName: projectName, name: `${projectName}-${app.name}` }, or none
ReplacementChoices ==
  {NoReplacements}
    \cup {[appName |-> projectName, name |-> projectName \o <<"-">> \o appName] :
            projectName \in {S("proj"), S("$&")}, appName \in {S("mobile"), S("shop")}}

InitTemplate ==
  /\ pc = "copyTemplate" /\ command = "none" /\ argv = NoArgv /\ env = NoEnv /\ cwd = Work
  /\ options = NoOptions /\ idx = 0
  /\ dirs = Prefixes(TemplateTarget) /\ files = <<>>
  /\ warnings = {} /\ asked = {} /\ exitCode = "none" /\ adds = 0
  /\ flag = NoFlag /\ parsed = NoParsed /\ info = NoInfo /\ adding = NoSpec
  /\ ParseIdle
  /\ tpl \in SUBSET TemplateFiles /\ repl \in ReplacementChoices /\ written = {}

TemplateFrame ==
  UNCHANGED <<command, argv, env, cwd, options, idx, warnings, asked, exitCode, adds, addVars,
              parseVars, tpl, repl>>

\* await cp(templatePath, targetPath, { recursive: true, filter })
CopyTemplate ==
  /\ pc = "copyTemplate"
  /\ LET r == cpTemplate(Cur, tpl, TemplateTarget) IN
       /\ dirs' = r.dirs /\ files' = r.files
       /\ pc' = IF ~r.ok THEN "failed"
                ELSE IF repl # NoReplacements THEN "processTemplate" ELSE "copied"
  /\ UNCHANGED written /\ TemplateFrame

\* if (replacements) await processTemplateReplacements(targetPath, replacements)
ProcessTemplate ==
  /\ pc = "processTemplate"
  /\ written' = RewrittenFiles(Cur, TemplateTarget, repl)
  /\ files' = processTemplateReplacements(Cur, TemplateTarget, repl).files
  /\ pc' = "copied"
  /\ UNCHANGED dirs /\ TemplateFrame

NextTemplate == CopyTemplate \/ ProcessTemplate

SpecTemplate == InitTemplate /\ [][NextTemplate]_vars

(***************************************************************************)
(* ORM injection on its own: addOrmEndpoints on an app directory whose     *)
(* src/index.ts is absent or made of up to MaxEntryLines lines, or is the  *)
(* entrypoint of a template, for every framework and ORM flavor.           *)
(***************************************************************************)
MaxEntryLines == 3

\* appPath, relative to the working directory
OrmAppRel == <<Proj, S("apps"), S("api")>>

OrmIndexPath == Work \o OrmAppRel \o <<S("src"), S("index.ts")>>

EntryLines ==
  { S("import cors from \"cors\";"), S("import express from \"express\";"),
    S("import { Hono } from \"hono\";"), S(""), S("const app = express();"),
    S("app.listen(port"), S("export default {") }

EntryContents ==
  UNION {[1..n -> EntryLines] : n \in 0..MaxEntryLines} \cup {ExpressIndexTs, HonoIndexTs}

InitOrm ==
  /\ pc = "addOrmEndpoints" /\ command = "none" /\ argv = NoArgv /\ env = NoEnv /\ cwd = Work
  /\ \E o \in {createOrmConfig("drizzle", "postgresql"), createOrmConfig("prisma", "postgresql")} :
       options = [NoOptions EXCEPT !.appName = Proj, !.orm = o]
  /\ idx = 0
  /\ dirs = Prefixes(Work \o OrmAppRel \o <<S("src")>>)
  /\ tpl \in {{}} \cup {{[rel |-> <<S("src"), S("index.ts")>>, content |-> Text(c)]} : c \in EntryContents}
  /\ files = [p \in {Work \o OrmAppRel \o t.rel : t \in tpl} |-> Text((CHOOSE t \in tpl : TRUE).content.lines)]
  /\ warnings = {} /\ asked = {} /\ exitCode = "none" /\ adds = 0
  /\ flag = NoFlag /\ parsed = NoParsed /\ info = NoInfo
  /\ \E framework \in {"express", "hono", "nestjs"} :
       adding = [category |-> "backend", template |-> S(framework), name |-> S("api")]
  /\ ParseIdle
  /\ repl = NoReplacements /\ written = {}

\* await addOrmEndpoints(appPath, app.template, orm)
AddOrmEndpoints ==
  /\ pc = "addOrmEndpoints"
  /\ LET r == addOrmEndpoints(Cur, cwd, OrmAppRel, W(adding.template), options.orm) IN
       /\ dirs' = r.dirs /\ files' = r.files /\ warnings' = r.warn
       /\ pc' = IF r.ok THEN "injected" ELSE "failed"
       /\ exitCode' = IF r.ok THEN exitCode ELSE 1
  /\ UNCHANGED <<command, argv, env, cwd, options, idx, asked, adds, addVars, parseVars, templateVars>>

NextOrm == AddOrmEndpoints

SpecOrm == InitOrm /\ [][NextOrm]_vars

(***************************************************************************)
(* UI injection at the end of createAppWithProcessing for the last app of  *)
(* create, followed by the loop over the packages: every app template,     *)
(* package lists with and without the UI packages, and an app directory    *)
(* whose page is one of the pages below or is missing.                     *)
(***************************************************************************)
UiAppPath == Work \o <<Proj, S("apps"), S("web")>>

UiAppTemplates ==
  {"react-vite", "react-webpack", "nextjs", "nextjs-solito", "react-router",
   "react-native-expo", "react-native-bare", "react-vike", "express"}

\* The file the injector of the template reads, relative to the app
UiTargetRel(template) ==
  CASE template \in {"nextjs", "nextjs-solito"} -> <<S("src"), S("app"), S("page.tsx")>>
    [] template = "react-router" -> <<S("app"), S("welcome"), S("welcome.tsx")>>
    [] template = "react-native-expo" -> <<S("app"), S("index.tsx")>>
    [] template = "react-native-bare" -> <<S("App.tsx")>>
    [] OTHER -> <<S("src"), S("App.tsx")>>

\* A Next.js page and a React Router welcome page that hold the anchors of
\* their injectors, and a page that holds none
NextPageTsx ==
  << S("import { useState } from \"react\";"),
     <<>>,
     S("export default function Home() {"),
     <<"\t\t\t", "<button onClick={() => setCount(count + 1)} className=\"btn\">">>,
     <<"\t\t\t\t", "Count: {count}">>,
     <<"\t\t\t", "</button>">>,
     S("}") >>

WelcomeTsx ==
  << S("export function Welcome() {"),
     <<"\t", "return (">>,
     <<"\t\t\t\t\t\t", "<ul>">>,
     <<"\t\t\t\t\t\t", "</ul>">>,
     <<"\t", ");">>,
     S("}") >>

PlainTsx == << S("export {};") >>

UiPages == {ReactViteAppTsx, SolitoPageTsx, ReactNativeAppTsx, NextPageTsx, WelcomeTsx, PlainTsx}

UiPackageLists ==
  { <<>>,
    << <<"ui", "[", "ui", "]">> >>,
    << <<"ui-native", "[", "ui-native", "]">> >>,
    << <<"ui", "[", "ui", "]">>, <<"ui-native", "[", "ui-native", "]">> >>,
    << <<"utils", "[", "utils", "]">> >>,
    << <<"myui", "[", "ui", "]">> >> }

InitUi ==
  /\ pc = "injectUI" /\ command = "create" /\ argv = NoArgv /\ env = NoEnv /\ cwd = Work
  /\ \E t \in UiAppTemplates, l \in UiPackageLists :
       /\ options = [NoOptions EXCEPT
                       !.appName = Proj,
                       !.apps = <<ResolveInput(<<"web", "[", t, "]">>, "apps").spec>>,
                       !.packages = [i \in 1..Len(l) |-> ResolveInput(l[i], "packages").spec]]
       /\ tpl \in {{}} \cup {{[rel |-> UiTargetRel(t), content |-> Text(c)]} : c \in UiPages}
       /\ dirs = Prefixes(UiAppPath \o Parent(UiTargetRel(t)))
  /\ files = [p \in {UiAppPath \o f.rel : f \in tpl} |-> (CHOOSE f \in tpl : TRUE).content]
  /\ idx = 1
  /\ warnings = {} /\ asked = {} /\ exitCode = "none" /\ adds = 0
  /\ flag = NoFlag /\ parsed = NoParsed /\ info = NoInfo /\ adding = NoSpec
  /\ ParseIdle
  /\ repl = NoReplacements /\ written = {}

\* await injectUIComponentDemos(appPath, app, packages, projectName), the
\* last statement of createAppWithProcessing
InjectUIComponentDemos ==
  /\ Step("injectUI",
          injectUIComponentDemos(Cur, cwd \o <<options.appName, S("apps"), options.apps[idx].name>>,
                                 options.apps[idx], options.packages, options.appName),
          "apps")
  /\ idx' = idx + 1 /\ Frame

NextUi == InjectUIComponentDemos \/ AppsDone \/ CreatePackage \/ PackagesDone

SpecUi == InitUi /\ [][NextUi]_vars

(***************************************************************************)
(* create-command.ts promptUser, the interactive branch: the loop that     *)
(* asks for the template of every app name                                 *)
(***************************************************************************)
MaxNames == 2

\* What is typed between two commas at "Enter app names (comma-separated):"
NameSegments == {<<>>, S("web"), <<" ", "api">>}

\* response.appsInput, split at the commas; validate refuses a blank answer
AppsInputs ==
  {a \in UNION {[1..n -> NameSegments] : n \in 1..MaxNames} : \E i \in DOMAIN a : Trim(a[i]) # <<>>}

\* response.appsInput.split(",").map((app) => app.trim()).filter(Boolean)
appNames(appsInput) ==
  LET NonEmpty(x) == x # <<>>
  IN SelectSeq([i \in 1..Len(appsInput) |-> Trim(appsInput[i])], NonEmpty)

\* A prompt of the loop, with the app name its message carries
Question(message, appName) == [message |-> message, appName |-> appName]

\* After the four prompts of promptUser were answered: pInput is the answer
\* to the app names prompt, options.apps the array apps, idx the position of
\* the for loop, adding.category the category of categoryResponse.
InitPrompt ==
  /\ pc = "forApp" /\ command = "create" /\ argv = NoArgv /\ env = NoEnv /\ cwd = Work
  /\ pInput \in AppsInputs
  /\ options = [NoOptions EXCEPT !.appName = Proj]
  /\ idx = 1
  /\ dirs = Prefixes(Work) /\ files = <<>> /\ warnings = {}
  /\ asked = {} /\ exitCode = "none" /\ adds = 0
  /\ flag = NoFlag /\ parsed = NoParsed /\ info = NoInfo /\ adding = NoSpec
  /\ pKind = "apps" /\ pAdd = NoAddParse /\ pCreate = NoCreateParse
  /\ TemplateIdle

PromptFrame ==
  UNCHANGED <<command, argv, env, cwd, dirs, files, warnings, adds, flag, parsed, info,
              parseVars, templateVars>>

\* apps.push(selectedTemplate), the end of one pass of the for loop
Record(selectedTemplate) ==
  /\ options' = [options EXCEPT !.apps = Append(@, selectedTemplate)]
  /\ idx' = idx + 1 /\ pc' = "forApp" /\ adding' = NoSpec
  /\ UNCHANGED exitCode

\* process.exit(0) after a cancelled prompt
Cancel ==
  /\ pc' = "done" /\ exitCode' = 0
  /\ UNCHANGED <<options, idx, adding>>

\* for (const appName of appNames): the next name, or the end of the loop
ForApp ==
  /\ pc = "forApp"
  /\ pc' = IF idx <= Len(appNames(pInput)) THEN "chooseCategory" ELSE "prompted"
  /\ UNCHANGED <<options, idx, adding, asked, exitCode>> /\ PromptFrame

\* The category prompt of the while loop
ChooseCategory ==
  /\ pc = "chooseCategory"
  /\ asked' = asked \cup {Question("Choose a template category for", appNames(pInput)[idx])}
  /\ \/ Cancel
     \/ \E c \in getTemplateChoices("apps") :
          IF c.template = "null"
          THEN /\ pc' = "chooseTemplate" /\ adding' = [NoSpec EXCEPT !.category = c.category]
               /\ UNCHANGED <<options, idx, exitCode>>
          ELSE Record([name |-> appNames(pInput)[idx], template |-> S(c.template),
                       category |-> c.category])
  /\ PromptFrame

\* A variant of ChooseTemplate in which Go Back is taken as a template
ChooseTemplateBackRecorded ==
  /\ pc = "chooseTemplate"
  /\ asked' = asked \cup {Question("Choose a template for", appNames(pInput)[idx])}
  /\ \/ Cancel
     \/ \E t \in {"__GO_BACK__"} \cup getCategoryTemplateChoices(adding.category) :
          Record([name |-> appNames(pInput)[idx], template |-> S(t), category |-> adding.category])
  /\ PromptFrame

\* The template prompt of the while loop, with Go Back as its first choice
ChooseTemplate ==
  /\ pc = "chooseTemplate"
  /\ asked' = asked \cup {Question("Choose a template for", appNames(pInput)[idx])}
  /\ \/ Cancel
     \/ /\ pc' = "chooseCategory" /\ adding' = NoSpec
        /\ UNCHANGED <<options, idx, exitCode>>
     \/ \E t \in getCategoryTemplateChoices(adding.category) :
          Record([name |-> appNames(pInput)[idx], template |-> S(t), category |-> adding.category])
  /\ PromptFrame

NextPrompt == ForApp \/ ChooseCategory \/ ChooseTemplate

SpecPrompt == InitPrompt /\ [][NextPrompt]_vars

(***************************************************************************)
(* Properties of name parsing, checked under SpecParse                     *)
(***************************************************************************)
\* The keys of the registry a template of the kind may name
ValidKeys(kind) ==
  IF kind = "apps"
  THEN UNION {TEMPLATES_CONFIG[c] : c \in DOMAIN TEMPLATES_CONFIG \ {"packages"}}
  ELSE TEMPLATES_CONFIG.packages \cup TEMPLATES_CONFIG.blank

\* The category of the registry that holds the key
CategoryOf(key) == CHOOSE c \in DOMAIN TEMPLATES_CONFIG : key \in TEMPLATES_CONFIG[c]

NoBrackets(s) == ~Includes(s, "[") /\ ~Includes(s, "]")

\* The entry as the resolver sees it
Entry == Trim(pInput)

\* The entry is name[template] with a name free of brackets and a one-word template
IsNameTemplate(s) ==
  /\ Len(s) >= 4 /\ s[Len(s)] = "]" /\ s[Len(s) - 2] = "["
  /\ s[Len(s) - 1] \notin {"[", "]"}
  /\ NoBrackets(SubSeq(s, 1, Len(s) - 3))

NameOf(s) == SubSeq(s, 1, Len(s) - 3)
TemplateOf(s) == s[Len(s) - 1]

ResolvedAs(name, template, category) ==
  /\ pCreate.error = "none"
  /\ pCreate.spec = [name |-> name, template |-> template, category |-> category]

BracketPart ==
  (IsNameTemplate(Entry) /\ TemplateOf(Entry) \in ValidKeys(pKind))
    => ResolvedAs(NameOf(Entry), S(TemplateOf(Entry)), CategoryOf(TemplateOf(Entry)))

\* C2 as stated: name[template] with a template valid for the kind resolves
\* to {name, template, category of the registry holding template}; every
\* input without brackets resolves to template blank in category blank and is
\* never an error.
C2_AsStated ==
  pCreate.done =>
    /\ BracketPart
    /\ NoBrackets(Entry) => ResolvedAs(Entry, S("blank"), "blank")

\* C2 amended: as C2, for every non-empty input without brackets; the empty
\* entry is rejected with the invalid format error.
C2_Resolver ==
  pCreate.done =>
    /\ BracketPart
    /\ (NoBrackets(Entry) /\ Entry # <<>>) => ResolvedAs(Entry, S("blank"), "blank")
    /\ Entry = <<>> => pCreate.error = "Invalid format"

\* C2 witnesses: a template of a later category resolved, a bare name
\* resolved, and the empty entry rejected
C2_Witness ==
  /\ pCreate.done /\ pKind = "apps"
  /\ Entry = <<"web", "[", "express", "]">>
  /\ pCreate.spec.category = "backend"

\* C3: resolving the bracket template t succeeds only if t is a key of a
\* category of the kind (or blank); a template of the other kind's categories
\* or of no category is never returned.
C3_OnlyKeysOfKind ==
  (pCreate.done /\ pCreate.error = "none" /\ pCreate.spec.template # S("blank"))
    => \E t \in ValidKeys(pKind) : pCreate.spec.template = S(t)

\* C4: the input [template] with an empty name prefix resolves to the name
\* template, as a flag value of add and as an entry of create's lists.
IsBareTemplate(s) == Len(s) = 3 /\ s[1] = "[" /\ s[3] = "]" /\ s[2] \in ValidKeys(pKind)

C4_NameIsTemplate ==
  IsBareTemplate(pInput) =>
    /\ pAdd.done => (~pAdd.error /\ pAdd.name = S(pInput[2]) /\ pAdd.template = S(pInput[2]))
    /\ pCreate.done => (pCreate.error = "none" /\ pCreate.spec.name = S(pInput[2]))

\* C5: for every input, name parsing raises an error or returns a non-empty
\* name.
C5_NoEmptyName ==
  /\ pAdd.done => (pAdd.error \/ pAdd.name # <<>>)
  /\ pCreate.done => (pCreate.error # "none" \/ pCreate.spec.name # <<>>)

(***************************************************************************)
(* Properties of the create and add invocations, checked under Spec        *)
(***************************************************************************)
\* R, the root of the created monorepo
ProjectRoot == Work \o <<Proj>>

Below(d, root) == Len(d) > Len(root) /\ SubSeq(d, 1, Len(root)) = root

FileAt(p) == IF p \in DOMAIN files THEN files[p] ELSE EmptyFile

KindDir == IF flag.name = "app" THEN S("apps") ELSE S("packages")

\* The directories the last step of add is to create for the chosen name
Target == ProjectRoot \o <<KindDir, adding.name>>

\* C1: an add run from the root R of a valid monorepo creates the new app at
\* R/apps/<name>, the new package at R/packages/<name>, and no directory
\* anywhere else.
C1_AddInsideRoot ==
  [][(pc \in {"addApp", "addPackage"} /\ pc' = "done") =>
       /\ Target \in dirs'
       /\ (Target \o <<S("package.json")>>) \in DOMAIN files'
       /\ \A d \in dirs' \ dirs : d = Target \/ Below(d, Target) \/ d = ProjectRoot \o <<KindDir>>]_vars

\* The flag of add carries name[template] with a template of the registry
FlagNamesTemplate ==
  /\ command = "add" /\ pc # "handleAdd" /\ ~parsed.error
  /\ flag.isString /\ IsNameTemplate(flag.value)
  /\ \E t \in TEMPLATES_CONFIG[IF flag.name = "app" THEN "backend" ELSE "packages"] :
       parsed.template = S(t)

\* C6: add --app name[template] and add --package name[template] create the
\* directory name from the template without asking for either again.
C6_FlagDecides ==
  FlagNamesTemplate =>
    /\ asked = {}
    /\ (info.valid /\ pc = "done") =>
         /\ adding.name = parsed.name /\ adding.template = parsed.template
         /\ (ProjectRoot \o <<KindDir, parsed.name>>) \in dirs

OrmFlavors == {"drizzle", "prisma"}

\* C7: create with --orm <flavor>, or with the ORM variable of the test
\* harness, ends with an ORM configuration of that flavor and with
\* docker-compose.dev.yml generated.
C7_OrmRequested ==
  (command = "create" /\ pc = "done" /\ env.ORM \in OrmFlavors) =>
    /\ options.orm.type = env.ORM
    /\ (ProjectRoot \o <<S("docker-compose.dev.yml")>>) \in DOMAIN files

\* A configuration of the test matrix of tests/test-runner.sh
InMatrix ==
  /\ command = "create" /\ env.NON_INTERACTIVE = "true"
  /\ env.LINTING \in {"eslint", "biome"}
  /\ env.ORM_TYPE \in {"prisma", "drizzle", "none"} /\ env.DATABASE = "postgresql"
  /\ env.APPS = MatrixApps /\ env.PACKAGES \in {MatrixPackages, <<>>}

\* C8: non-interactive create succeeds for every configuration of the test
\* matrix: it does not fail, and when it has ended the project directory
\* exists with a lint script in the root package.json.
C8_MatrixSucceeds ==
  InMatrix =>
    /\ pc # "failed"
    /\ pc = "done" =>
         /\ ProjectRoot \in dirs
         /\ "lint" \in FileAt(ProjectRoot \o <<S("package.json")>>).scripts

\* apps web[react-vite] and api[express], packages ui, prisma on postgresql
EndToEndConfig ==
  /\ command = "create" /\ env.NON_INTERACTIVE = "true"
  /\ env.LINTING \in {"undefined", "biome", "eslint-prettier"}
  /\ env.APPS = << <<"web", "[", "react-vite", "]">>, <<"api", "[", "express", "]">> >>
  /\ env.PACKAGES = << <<"ui">> >>
  /\ env.ORM_TYPE = "prisma" /\ env.DATABASE = "postgresql"

\* C9: the end-to-end configuration completes; apps/web/package.json depends
\* on @<project>/ui, apps/api/src/index.ts holds the injected /api/users
\* routes and docker-compose.dev.yml defines the postgres service.
C9_EndToEnd ==
  EndToEndConfig =>
    /\ pc # "failed"
    /\ pc = "done" =>
         /\ Scoped(Proj, S("ui")) \in FileAt(ProjectRoot \o <<S("apps"), S("web"), S("package.json")>>).deps
         /\ <<"app.get(\"/api/users\", db) ", "prisma">>
              \in RangeOf(FileAt(ProjectRoot \o <<S("apps"), S("api"), S("src"), S("index.ts")>>).lines)
         /\ S("  postgres:") \in RangeOf(FileAt(ProjectRoot \o <<S("docker-compose.dev.yml")>>).lines)

\* The workspace dependencies the capability rule gives an app
ExpectedDependencies(app, packages) ==
  {Scoped(Proj, packages[i].name) : i \in
     {j \in 1..Len(packages) :
        LET t == W(app.template) p == W(packages[j].template) IN
        \/ t \in NATIVE_FRAMEWORKS /\ p = "ui-native"
        \/ t \in REACT_FRAMEWORKS /\ p \in {"ui", "hooks"}
        \/ p \in {"utils", "schemas"}}}

\* The apps of the create invocation whose creation has ended
CreatedApps ==
  IF command # "create" THEN {}
  ELSE IF pc = "apps" THEN 1..(idx - 1)
  ELSE IF pc \in {"packages", "done"} THEN 1..Len(options.apps)
  ELSE {}

WorkspaceDependencies(i) ==
  FileAt(ProjectRoot \o <<S("apps"), options.apps[i].name, S("package.json")>>).deps
    \cap {Scoped(Proj, options.packages[j].name) : j \in 1..Len(options.packages)}

\* C10: the workspace dependencies of every created app are exactly the
\* ui-native packages for a native framework, the ui and hooks packages for a
\* React framework and the utils and schemas packages for every app.
C10_DependencyRule ==
  \A i \in CreatedApps : WorkspaceDependencies(i) = ExpectedDependencies(options.apps[i], options.packages)

(***************************************************************************)
(* Properties of the db package, the root files and the order of writes,   *)
(* checked under Spec                                                      *)
(***************************************************************************)
DbPackagePath == ProjectRoot \o <<S("packages"), S("db")>>

\* C11: with an ORM of type drizzle or prisma configured, the ORM step of
\* createMonorepo succeeds and leaves packages/db with its package.json and
\* the ORM client, whatever the package list is.
C11_DbPackageCreated ==
  [][(command = "create" /\ pc = "ormSetup" /\ options.orm.type \in OrmFlavors) =>
       /\ pc' = "gitignore"
       /\ (DbPackagePath \o <<S("package.json")>>) \in DOMAIN files'
       /\ (DbPackagePath \o <<S("src"), S("client.ts")>>) \in DOMAIN files']_vars

\* C12: when an ORM is configured, the options of create hold no package
\* named db: the name has been rejected, so that no later package
\* materialization writes into packages/db.
C12_DbReserved ==
  (command = "create" /\ options.orm.type \in OrmFlavors) =>
    \A i \in 1..Len(options.packages) : options.packages[i].name # S("db")

\* An invocation has ended and has left a root package.json
Ended == pc \in {"done", "failed"}

RootPackageJson == ProjectRoot \o <<S("package.json")>>

\* C13: once an invocation has ended, the workspaces of the root
\* package.json hold apps/* exactly when R/apps exists and packages/*
\* exactly when R/packages exists.
C13_WorkspacesMatchDirs ==
  (Ended /\ RootPackageJson \in DOMAIN files) =>
    /\ S("apps/*") \in RangeOf(files[RootPackageJson].workspaces)
         <=> (ProjectRoot \o <<S("apps")>>) \in dirs
    /\ S("packages/*") \in RangeOf(files[RootPackageJson].workspaces)
         <=> (ProjectRoot \o <<S("packages")>>) \in dirs

RootTsConfig == ProjectRoot \o <<S("tsconfig.json")>>

\* The positions of the reference path in the references refs
ReferencesTo(refs, path) == {i \in 1..Len(refs) : refs[i] = path}

\* In the file system d, f the root tsconfig.json holds exactly one reference
\* for every directory of R/apps and of R/packages and no reference path twice
OneReferencePerDirectory(d, f) ==
  LET refs == IF RootTsConfig \in DOMAIN f THEN f[RootTsConfig].refs ELSE <<>>
      st == [ok |-> TRUE, dirs |-> d, files |-> f, warn |-> {}]
  IN /\ \A n \in Children(st, ProjectRoot \o <<S("apps")>>) :
          Cardinality(ReferencesTo(refs, <<"apps", "/">> \o n)) = 1
     /\ \A n \in Children(st, ProjectRoot \o <<S("packages")>>) :
          Cardinality(ReferencesTo(refs, <<"packages", "/">> \o n)) = 1
     /\ \A i \in 1..Len(refs) : Cardinality(ReferencesTo(refs, refs[i])) = 1

\* Every reference of the root tsconfig.json names a directory that exists
NoDanglingReference(d, f) ==
  \A i \in 1..Len(f[RootTsConfig].refs) :
    LET ref == f[RootTsConfig].refs[i] IN
    (ProjectRoot \o <<S(ref[1]), SubSeq(ref, 3, Len(ref))>>) \in d

\* C14: when create completes, and when an add completes in a monorepo whose
\* root tsconfig.json held exactly the references of its app and package
\* directories, the root tsconfig.json holds exactly one reference for every
\* directory of R/apps and of R/packages, and no reference path twice.
C14_OneReferencePerDirectory ==
  [][(pc # "done" /\ pc' = "done"
        /\ \/ command = "create"
           \/ /\ cwd = ProjectRoot /\ RootTsConfig \in DOMAIN files
              /\ OneReferencePerDirectory(dirs, files) /\ NoDanglingReference(dirs, files))
       => OneReferencePerDirectory(dirs', files')]_vars

\* The root configuration files every create writes
RootConfigFiles ==
  {RootPackageJson, RootTsConfig, ProjectRoot \o <<S("tsconfig.base.json")>>,
   ProjectRoot \o <<S(".gitignore")>>}

\* The files a step writes: new ones and ones with a new content
WrittenByStep == {f \in DOMAIN files' : f \notin DOMAIN files \/ files'[f] # files[f]}

\* The directory of the i-th requested app, or package
ItemDir(kind, i) == ProjectRoot \o <<S(kind), options[kind][i].name>>

ItemWritten(kind, i) == (ItemDir(kind, i) \o <<S("package.json")>>) \in DOMAIN files

C16_FailureKeepsTree ==
  /\ [][(command = "create" /\ pc # "failed" /\ pc' = "failed") =>
          /\ exitCode' = 1
          /\ dirs \subseteq dirs'
          /\ \A f \in DOMAIN files : f \in DOMAIN files' /\ files'[f] = files[f]]_vars
  /\ [][(command = "create" /\ pc = "failed") => command' = "add"]_vars

C16_Witness ==
  /\ command = "create" /\ pc = "failed" /\ exitCode = 1
  /\ RootPackageJson \in DOMAIN files /\ RootTsConfig \in DOMAIN files
  /\ (DbPackagePath \o <<S("src")>>) \in dirs
  /\ (ProjectRoot \o <<S(".gitignore")>>) \notin DOMAIN files

\* validateMonorepoStructure in the file system d, f run in the directory c
ValidAt(d, f, c) ==
  validateMonorepoStructure([ok |-> TRUE, dirs |-> d, files |-> f, warn |-> {}], c).valid

\* C17: an add invocation run where there is no package.json with
\* workspaces changes no directory and no file, and once past the validation
\* it has ended with exit code 1; this for --app, --package, --orm and the
\* interactive mode.
C17_ValidatesFirst ==
  /\ [][(command' = "add" /\ ~ValidAt(dirs, files, cwd')) => (dirs' = dirs /\ files' = files)]_vars
  /\ []((command = "add" /\ ~ValidAt(dirs, files, cwd) /\ pc \notin {"handleAdd", "validate"})
          => (pc = "failed" /\ exitCode = 1))

C17_Witness ==
  /\ command = "add" /\ flag.name = "orm" /\ pc = "failed" /\ exitCode = 1 /\ info = NoInfo
  /\ cwd = Work \o <<Proj, S("apps"), S("web")>>
  /\ (cwd \o <<S("package.json")>>) \in DOMAIN files

\* The apps the ending step of an add invocation creates
AddedApps ==
  IF pc = "addApp" THEN <<adding>> ELSE IF pc = "addToExisting" THEN options.apps ELSE <<>>

\* The package.json of an added app, in R/apps or where the step has put it
AddedAppDeps(f, name) ==
  UNION {f[q].deps : q \in {p \in DOMAIN f :
            /\ Len(p) >= 3 /\ p[Len(p)] = S("package.json") /\ p[Len(p) - 1] = name
            /\ p[Len(p) - 2] = S("apps")}}

\* C18: an app added to a monorepo whose packages/ holds utils or schemas,
\* the packages every app depends on, depends on them.
C18_DependsOnExisting ==
  [][(pc \in {"addApp", "addToExisting"} /\ pc' = "done") =>
       \A i \in 1..Len(AddedApps) : \A p \in info.packages \cap {S("utils"), S("schemas")} :
         Scoped(Proj, p) \in AddedAppDeps(files', AddedApps[i].name)]_vars

(***************************************************************************)
(* Properties of the template copy, checked under SpecTemplate             *)
(***************************************************************************)
\* A segment of the relative path is node_modules or dist
SegmentSkipped(rel) == \E i \in 1..Len(rel) : rel[i] \in {S("node_modules"), S("dist")}

\* C19: after the copy, a file of the template is under the destination
\* exactly when no segment of its relative path is node_modules or dist, and
\* its parent directories are there with it.
C19_SkipsSegmentsOnly ==
  pc \in {"processTemplate", "copied"} =>
    \A e \in tpl :
      /\ (TemplateTarget \o e.rel) \in DOMAIN files <=> ~SegmentSkipped(e.rel)
      /\ ~SegmentSkipped(e.rel) => (TemplateTarget \o Parent(e.rel)) \in dirs

Placeholders == {"{{appName}}", "{{name}}"}

\* The line with every placeholder replaced by its value, taken literally
RECURSIVE Substituted(_, _)
Substituted(line, replacements) ==
  IF line = <<>> THEN <<>>
  ELSE (CASE Head(line) = "{{appName}}" -> replacements.appName
          [] Head(line) = "{{name}}" -> replacements.name
          [] OTHER -> <<Head(line)>>) \o Substituted(Tail(line), replacements)

HasPlaceholder(lines) == \E i \in 1..Len(lines) : \E k \in Placeholders : Includes(lines[i], k)

\* C20: after the substitution, an allow-listed file holds no {{key}} of the
\* map, each one replaced by the literal value; a file without a {{key}} and
\* a file that is not allow-listed has the content of its source and was not
\* written.
C20_Substitution ==
  (pc = "copied" /\ repl # NoReplacements) =>
    \A e \in tpl :
      LET q == TemplateTarget \o e.rel IN
      q \in DOMAIN files =>
        IF ExtOf(q[Len(q)]) \in textExtensions /\ HasPlaceholder(e.content.lines)
        THEN /\ ~HasPlaceholder(files[q].lines)
             /\ files[q].lines =
                  [i \in 1..Len(e.content.lines) |-> Substituted(e.content.lines[i], repl)]
        ELSE files[q] = e.content /\ q \notin written

(***************************************************************************)
(* Properties of the ORM injection, checked under SpecOrm                  *)
(***************************************************************************)
OrmFramework == W(adding.template)

EntryPresent == tpl # {}

\* The content of src/index.ts before the injection, and after it
EntryRead == IF tpl = {} THEN <<>> ELSE (CHOOSE t \in tpl : TRUE).content.lines

EntryWritten == IF OrmIndexPath \in DOMAIN files THEN files[OrmIndexPath].lines ELSE <<>>

OrmFilesBefore == [p \in {OrmIndexPath : t \in tpl} |-> Text(EntryRead)]

OrmEnded == pc \in {"injected", "failed"}

\* C21: without src/index.ts, and for a framework that is neither express
\* nor hono, the injection ends without an error and every file and
\* directory is as before.
C21_NoOpWithoutEntrypoint ==
  (OrmEnded /\ (~EntryPresent \/ OrmFramework \notin {"express", "hono"})) =>
    /\ pc = "injected" /\ exitCode = "none"
    /\ files = OrmFilesBefore
    /\ dirs = Prefixes(Work \o OrmAppRel \o <<S("src")>>)

C21_Witness ==
  /\ pc = "injected" /\ ~EntryPresent /\ OrmFramework = "express"
  /\ options.orm.type = "prisma" /\ files = <<>>

CorsLine == S("import cors from \"cors\";")
ListenLine == S("app.listen(port")
ExportLine == S("export default {")

IndexOf(seq, x) == FirstIndex(seq, 1, {x})

LastImport(seq) ==
  LET found == {k \in 1..Len(seq) : IsImportLine(seq[k])} IN
  IF found = {} THEN 0 ELSE CHOOSE k \in found : \A j \in found : j <= k

FirstImport(seq) == FirstIndex(seq, 1, {x \in RangeOf(seq) : IsImportLine(x)})

\* The anchors of the framework are in the content read
AnchorsFound ==
  \/ OrmFramework = "express" /\ IndexOf(EntryRead, CorsLine) # 0 /\ IndexOf(EntryRead, ListenLine) # 0
  \/ OrmFramework = "hono" /\ FirstImport(EntryRead) # 0 /\ IndexOf(EntryRead, ExportLine) # 0

\* None of them is
NoAnchorFound ==
  \/ OrmFramework = "express" /\ IndexOf(EntryRead, CorsLine) = 0 /\ IndexOf(EntryRead, ListenLine) = 0
  \/ OrmFramework = "hono" /\ FirstImport(EntryRead) = 0 /\ IndexOf(EntryRead, ExportLine) = 0

\* The anchor import line: the CORS import for Express, the last import
\* statement for Hono
AnchorImport(seq) == IF OrmFramework = "express" THEN IndexOf(seq, CorsLine) ELSE LastImport(seq)

\* C22 as stated: the import of the db package is inserted after the anchor
\* import line, so the file up to that line is as it was read.
C22_AsStated ==
  (pc = "injected" /\ EntryPresent /\ AnchorsFound) =>
    /\ DbImport(options.orm, Proj) \in RangeOf(EntryWritten)
    /\ SubSeq(EntryWritten, 1, AnchorImport(EntryRead)) = SubSeq(EntryRead, 1, AnchorImport(EntryRead))

\* content with before[k] inserted before its k-th line and after[k] after it
RECURSIVE Woven(_, _, _, _)
Woven(content, before, after, k) ==
  IF k > Len(content) THEN <<>>
  ELSE before[k] \o <<content[k]>> \o after[k] \o Woven(content, before, after, k + 1)

EqImport == S("import { eq } from \"drizzle-orm\";")

ExpectedExpress ==
  LET c == IndexOf(EntryRead, CorsLine)
      l == IndexOf(EntryRead, ListenLine)
      before == [k \in 1..Len(EntryRead) |-> IF k = l THEN userRoutes(options.orm) ELSE <<>>]
      after == [k \in 1..Len(EntryRead) |->
                  IF k = c /\ options.orm.type = "drizzle" THEN <<EqImport, S("")>> ELSE <<>>]
  IN <<DbImport(options.orm, Proj), S("")>> \o Woven(EntryRead, before, after, 1)

ExpectedHono ==
  LET i == FirstImport(EntryRead)
      e == IndexOf(EntryRead, ExportLine)
      imports == <<DbImport(options.orm, Proj)>>
                   \o (IF options.orm.type = "drizzle" THEN <<EqImport>> ELSE <<>>)
      before == [k \in 1..Len(EntryRead) |->
                   IF k = i THEN imports
                   ELSE IF k = e THEN userRoutes(options.orm) \o <<S("")>> ELSE <<>>]
      after == [k \in 1..Len(EntryRead) |-> <<>>]
  IN Woven(EntryRead, before, after, 1)

\* C22 amended: the import of the db package is inserted at the top (Express:
\* at the beginning of the file with an empty line, the eq import of
\* drizzle after the CORS import; Hono: before the first import statement),
\* the route handlers before app.listen( or export default, and every line
\* read is in the file written, in the same order.
C22_Injection ==
  (pc = "injected" /\ EntryPresent /\ AnchorsFound) =>
    EntryWritten = IF OrmFramework = "express" THEN ExpectedExpress ELSE ExpectedHono

C22_Witness ==
  /\ pc = "injected" /\ OrmFramework = "hono" /\ options.orm.type = "drizzle"
  /\ EntryRead = HonoIndexTs
  /\ Len(EntryWritten) = Len(HonoIndexTs) + 2 + Len(userRoutes(options.orm)) + 1
  /\ EntryWritten[1] = DbImport(options.orm, Proj)

\* C23: when no anchor of the framework is in the content read, the file
\* written is the content read and no error is raised.
C23_AnchorMissingNoChange ==
  (OrmEnded /\ EntryPresent /\ NoAnchorFound) =>
    (pc = "injected" /\ exitCode = "none" /\ EntryWritten = EntryRead)

(***************************************************************************)
(* Properties of the UI injection, checked under SpecUi                    *)
(***************************************************************************)
UiTemplate == W(options.apps[1].template)

HasKind(kind) == \E i \in 1..Len(options.packages) : options.packages[i].template = S(kind)

\* The package kind the app template consumes
Consumes(template) ==
  CASE template \in {"react-vite", "react-webpack", "nextjs", "react-router"} -> "ui"
    [] template \in {"nextjs-solito", "react-native-expo", "react-native-bare"} -> "ui-native"
    [] OTHER -> "none"

KindPresent == Consumes(UiTemplate) # "none" /\ HasKind(Consumes(UiTemplate))

\* The files of the app directory
AppFiles == [p \in {q \in DOMAIN files : Below(q, UiAppPath)} |-> files[p]]

UiFilesBefore == [p \in {UiAppPath \o f.rel : f \in tpl} |-> (CHOOSE f \in tpl : TRUE).content]

UiInjected == command = "create" /\ pc \in {"apps", "packages", "done", "failed"}

\* C24: the injection step changes a file only when the package list holds
\* the package kind the app template consumes: ui for react-vite,
\* react-webpack, nextjs and react-router, ui-native for nextjs-solito,
\* react-native-expo and react-native-bare, nothing for any other template.
C24_ChangesOnlyWithKind ==
  [][(pc = "injectUI" /\ ~KindPresent) => (files' = files /\ dirs' = dirs /\ pc' = "apps")]_vars

C24_Witness ==
  /\ pc = "apps" /\ UiTemplate = "react-vite" /\ HasKind("ui-native") /\ ~HasKind("ui")
  /\ tpl # {} /\ (CHOOSE f \in tpl : TRUE).content.lines = ReactViteAppTsx
  /\ AppFiles = UiFilesBefore

\* C25: with a ui package, the App.tsx of react-vite gets the Button import
\* before the useState import and the counter button (lines 14 to 16)
\* becomes one Button element with the same handler and label, at the
\* indentation of the button; every other line is as in the template.
C25_ReactViteButton ==
  (UiInjected /\ UiTemplate = "react-vite" /\ HasKind("ui")
     /\ tpl = {[rel |-> UiTargetRel("react-vite"), content |-> Text(ReactViteAppTsx)]}) =>
    /\ pc # "failed"
    /\ AppFiles =
         ((UiAppPath \o UiTargetRel("react-vite")) :>
            Text(<< <<"import { Button } from ", "@", "proj", "/", "ui">> >>
                 \o SubSeq(ReactViteAppTsx, 1, 13)
                 \o << <<"\t\t\t\t",
                         "<Button onClick={() => setCount((count) => count + 1)}>count is {count}</Button>">> >>
                 \o SubSeq(ReactViteAppTsx, 17, 26)))

C25_Witness ==
  /\ pc = "done" /\ UiTemplate = "react-vite" /\ HasKind("ui")
  /\ (UiAppPath \o UiTargetRel("react-vite")) \in DOMAIN files
  /\ Len(files[UiAppPath \o UiTargetRel("react-vite")].lines) = Len(ReactViteAppTsx) - 1
  /\ files[UiAppPath \o UiTargetRel("react-vite")].lines[2] = S("import { useState } from \"react\";")

\* C26: when the file the injector reads is not there, the injection ends
\* without an error, a warning is logged, no file is written in the app, and
\* the packages are created: the run does not fail and ends with exit code 0
\* and the package.json of every package.
C26_UnreadableTargetWarns ==
  (UiInjected /\ KindPresent /\ tpl = {}) =>
    /\ pc # "failed"
    /\ warnings # {}
    /\ AppFiles = <<>>
    /\ pc = "done" =>
         /\ exitCode = 0
         /\ \A i \in 1..Len(options.packages) :
              (Work \o <<Proj, S("packages"), options.packages[i].name, S("package.json")>>) \in DOMAIN files

C26_Witness ==
  /\ pc = "done" /\ exitCode = 0 /\ tpl = {} /\ UiTemplate = "react-native-expo"
  /\ HasKind("ui-native") /\ HasKind("ui")
  /\ (UiAppPath \o <<S("App.tsx")>>) \in warnings


(***************************************************************************)
(* Properties of the injected workspace imports, checked under Spec        *)
(***************************************************************************)
\* The workspace packages the injectors import from
InjectedPackages == {"ui", "ui-native", "db"}

\* line is an import statement an injector writes for the package x
IsInjectedImport(line, x) ==
  /\ Len(line) >= 2
  /\ line[1] \in {"import { Button } from ", "import { db } from ",
                  "import { db, type NewUser, users } from "}
  /\ SubSeq(line, 2, Len(line)) = Scoped(Proj, S(x))

\* The packages the files of the i-th app import from through such a line
InjectedImports(i) ==
  {x \in InjectedPackages :
     \E p \in DOMAIN files :
       /\ Below(p, ProjectRoot \o <<S("apps"), options.apps[i].name>>)
       /\ \E k \in 1..Len(files[p].lines) : IsInjectedImport(files[p].lines[k], x)}

\* A create invocation has ended with exit code 0
Generated == command = "create" /\ pc = "done"

\* C27: in a generated monorepo, every workspace import an injector has
\* written into an app names a package that exists under packages/ with that
\* exact name and that the package.json of the app declares as a dependency.
C27_ImportsResolve ==
  Generated =>
    \A i \in 1..Len(options.apps) : \A x \in InjectedImports(i) :
      /\ FileAt(ProjectRoot \o <<S("packages"), S(x), S("package.json")>>).name = Scoped(Proj, S(x))
      /\ (ProjectRoot \o <<S("packages"), S(x), S("package.json")>>) \in DOMAIN files
      /\ Scoped(Proj, S(x)) \in FileAt(ProjectRoot \o <<S("apps"), options.apps[i].name, S("package.json")>>).deps

(***************************************************************************)
(* Properties of the ORM detection of add, checked under Spec              *)
(***************************************************************************)
\* The create invocation that made the project was given an ORM: its ORM
\* step has made the directory of the db package
CreatedWithOrm == (DbPackagePath \o <<S("src")>>) \in dirs

ConfirmOverwrite == "Do you want to continue and potentially overwrite existing ORM setup?"

\* C28: in the add invocation that follows a create with an ORM,
\* validateMonorepoStructure reports hasOrmSetup = true, the interactive menu
\* does not offer the ORM setup and add --orm asks for the confirmation
\* before it writes.
C28_OrmDetected ==
  (command = "add" /\ adds = 1 /\ CreatedWithOrm) =>
    /\ info.valid => info.hasOrmSetup
    /\ "ORM Setup" \notin asked
    /\ pc = "addOrm" => ConfirmOverwrite \in asked

(***************************************************************************)
(* Properties of the names of the workspace packages, checked under Spec   *)
(***************************************************************************)
\* The package.json files of the workspace directories apps/* and packages/*
WorkspaceManifests ==
  {p \in DOMAIN files :
     /\ Len(p) = Len(ProjectRoot) + 3 /\ Below(p, ProjectRoot)
     /\ p[Len(ProjectRoot) + 1] \in {S("apps"), S("packages")}
     /\ p[Len(p)] = S("package.json")}

\* C29: in a generated monorepo the names of the workspace packages are
\* pairwise distinct and every requested app or package has a directory of
\* its own.
C29_DistinctItems ==
  Generated =>
    /\ \A p, q \in WorkspaceManifests : files[p].name = files[q].name => p = q
    /\ Cardinality(WorkspaceManifests) = Len(options.apps) + Len(options.packages)

(***************************************************************************)
(* Properties of the interactive template selection, checked under         *)
(* SpecPrompt                                                              *)
(***************************************************************************)
InLoop == pc \in {"chooseCategory", "chooseTemplate"}

\* The last element of apps' is a choice the prompts offer for the current name
RecordedChoice ==
  LET rec == options'.apps[Len(options'.apps)] IN
  /\ options'.apps = Append(options.apps, rec)
  /\ rec.name = appNames(pInput)[idx]
  /\ \/ pc = "chooseCategory" /\ rec.template = S("blank") /\ rec.category = "blank"
     \/ /\ pc = "chooseTemplate" /\ rec.category = adding.category /\ rec.category # "blank"
        /\ W(rec.template) \in TEMPLATES_CONFIG[rec.category]

\* C30: Go Back returns to the category prompt and records nothing; a
\* recorded choice is (blank, blank) from the category prompt or a template
\* of the chosen category from the template prompt; the loop of an app is
\* left only with one recorded choice or by process exit with code 0; the
\* list at the end of the loop has the length and the order of the names.
C30_OneTemplatePerName ==
  /\ [][/\ (pc = "chooseTemplate" /\ pc' = "chooseCategory") =>
             (options' = options /\ idx' = idx)
        /\ options'.apps # options.apps => (InLoop /\ RecordedChoice)
        /\ (InLoop /\ pc' \notin {"chooseCategory", "chooseTemplate"}) =>
             \/ pc' = "forApp" /\ Len(options'.apps) = Len(options.apps) + 1 /\ idx' = idx + 1
             \/ pc' = "done" /\ exitCode' = 0 /\ options' = options]_vars
  /\ [](pc = "prompted" =>
          /\ Len(options.apps) = Len(appNames(pInput))
          /\ \A i \in 1..Len(options.apps) : options.apps[i].name = appNames(pInput)[i])

\* Two names were entered; Go Back was chosen for the second one, whose
\* template prompt was shown while nothing is recorded for it
C30_Witness ==
  /\ pc = "chooseCategory" /\ idx = 2 /\ Len(options.apps) = 1
  /\ appNames(pInput) = <<S("web"), S("api")>>
  /\ Question("Choose a template for", S("api")) \in asked
  /\ options.apps[1] = [name |-> S("web"), template |-> S("blank"), category |-> "blank"]

====
